---- MODULE Spec2Model ----
(***************************************************************************)
(* The periodic table registry of pyriodic-table: the PeriodicTable class  *)
(* (periodic_table/periodictable.py) built over chemelements.Element       *)
(* (periodic_table/chemelements.py).                                       *)
(*                                                                         *)
(* Python str values are sequences of ASCII codes, so that str.lower(),    *)
(* str.upper() and str.title() are computed and not assumed.  Optional     *)
(* attributes (None in Python) are None / Some(v).  Temperatures are in    *)
(* units of 10^-4 K, atomic masses in units of 10^-4 u, densities (g/cm^3) *)
(* decimal numbers Dec(w, f).                                              *)
(***************************************************************************)
EXTENDS Integers, Sequences, FiniteSets, TLC

(***************************************************************************)
(* Python values.                                                          *)
(***************************************************************************)
None == [some |-> FALSE]
Some(v) == [some |-> TRUE, v |-> v]

IsUpper(c) == c \in 65..90
IsLower(c) == c \in 97..122
IsCased(c) == IsUpper(c) \/ IsLower(c)
ToLower(c) == IF IsUpper(c) THEN c + 32 ELSE c
ToUpper(c) == IF IsLower(c) THEN c - 32 ELSE c

\* str.lower()
lower(s) == [i \in 1..Len(s) |-> ToLower(s[i])]

\* str.upper()
upper(s) == [i \in 1..Len(s) |-> ToUpper(s[i])]

\* str.title(): a cased character is upper-cased when the character before
\* it is not cased (or there is none), lower-cased otherwise.
title(s) ==
  [i \in 1..Len(s) |->
     IF i > 1 /\ IsCased(s[i - 1]) THEN ToLower(s[i]) ELSE ToUpper(s[i])]

\* range(start, stop, step) for step # 0, as the sequence of its members.
range(start, stop, step) ==
  LET span == IF step > 0 THEN stop - start ELSE start - stop
      astep == IF step > 0 THEN step ELSE 0 - step
      n == IF span <= 0 THEN 0 ELSE (span + astep - 1) \div astep
  IN [i \in 1..n |-> start + (i - 1) * step]

\* list[i] of Python: indices -len..len-1 are valid, negative ones count
\* from the end; any other index raises IndexError.
IndexInRange(list, i) == 0 - Len(list) <= i /\ i < Len(list)
getitem(list, i) == IF i >= 0 THEN list[i + 1] ELSE list[Len(list) + i + 1]

\* list[:0:-1]: the reverse without the first element of the list.
reversed_to_index_1(list) == [i \in 1..(Len(list) - 1) |-> list[Len(list) + 1 - i]]

\* list[::-1]
reversed(list) == [i \in 1..Len(list) |-> list[Len(list) + 1 - i]]

\* A decimal number w + f / 10^8 with 0 <= f < 10^8, and the order of
\* two such numbers.
Dec(w, f) == [w |-> w, f |-> f]
DecLeq(a, b) == a.w < b.w \/ (a.w = b.w /\ a.f <= b.f)

NUMBER_OF_ELEMENTS == 118

(***************************************************************************)
(* chemelements.Element: the match statement of Element.__init__, one      *)
(* entry per case, with the string patterns, the integer pattern and the   *)
(* attributes the case assigns.                                            *)
(***************************************************************************)
DATA ==
  <<
  \* case "hydrogen" | "h" | 1:
  [ strs |-> {<<104,121,100,114,111,103,101,110>>, <<104>>}, int |-> 1,
    attrs |-> [ name |-> <<104,121,100,114,111,103,101,110>>, symbol |-> <<72>>, atomic_number |-> 1,
      atomic_mass |-> 10080, electrons_per_shell |-> <<1>>,
      state |-> Some(<<103,97,115>>), group |-> Some(1), period |-> 1,
      melting_point_k |-> Some(139900), boiling_point_k |-> Some(202710),
      density |-> Some(Dec(0, 8988)),
      natural |-> TRUE, has_stable_isotope |-> TRUE, discovery_year |-> Some(1766) ] ],
  \* case "helium" | "he" | 2:
  [ strs |-> {<<104,101,108,105,117,109>>, <<104,101>>}, int |-> 2,
    attrs |-> [ name |-> <<104,101,108,105,117,109>>, symbol |-> <<72,101>>, atomic_number |-> 2,
      atomic_mass |-> 40026, electrons_per_shell |-> <<2>>,
      state |-> Some(<<103,97,115>>), group |-> Some(18), period |-> 1,
      melting_point_k |-> Some(9500), boiling_point_k |-> Some(42220),
      density |-> Some(Dec(0, 17860)),
      natural |-> TRUE, has_stable_isotope |-> TRUE, discovery_year |-> Some(1868) ] ],
  \* case "lithium" | "li" | 3:
  [ strs |-> {<<108,105,116,104,105,117,109>>, <<108,105>>}, int |-> 3,
    attrs |-> [ name |-> <<108,105,116,104,105,117,109>>, symbol |-> <<76,105>>, atomic_number |-> 3,
      atomic_mass |-> 69400, electrons_per_shell |-> <<2,1>>,
      state |-> Some(<<115,111,108,105,100>>), group |-> Some(1), period |-> 2,
      melting_point_k |-> Some(4536500), boiling_point_k |-> Some(16030000),
      density |-> Some(Dec(0, 53400000)),
      natural |-> TRUE, has_stable_isotope |-> TRUE, discovery_year |-> Some(1817) ] ],
  \* case "beryllium" | "be" | 4:
  [ strs |-> {<<98,101,114,121,108,108,105,117,109>>, <<98,101>>}, int |-> 4,
    attrs |-> [ name |-> <<98,101,114,121,108,108,105,117,109>>, symbol |-> <<66,101>>, atomic_number |-> 4,
      atomic_mass |-> 90122, electrons_per_shell |-> <<2,2>>,
      state |-> Some(<<115,111,108,105,100>>), group |-> Some(2), period |-> 2,
      melting_point_k |-> Some(15600000), boiling_point_k |-> Some(27420000),
      density |-> Some(Dec(1, 85000000)),
      natural |-> TRUE, has_stable_isotope |-> TRUE, discovery_year |-> Some(1798) ] ],
  \* case "boron" | "b" | 5:
  [ strs |-> {<<98,111,114,111,110>>, <<98>>}, int |-> 5,
    attrs |-> [ name |-> <<98,111,114,111,110>>, symbol |-> <<66>>, atomic_number |-> 5,
      atomic_mass |-> 108100, electrons_per_shell |-> <<2,3>>,
      state |-> Some(<<115,111,108,105,100>>), group |-> Some(13), period |-> 2,
      melting_point_k |-> Some(23490000), boiling_point_k |-> Some(42000000),
      density |-> Some(Dec(2, 34000000)),
      natural |-> TRUE, has_stable_isotope |-> TRUE, discovery_year |-> Some(1808) ] ],
  \* case "carbon" | "c" | 6:
  [ strs |-> {<<99,97,114,98,111,110>>, <<99>>}, int |-> 6,
    attrs |-> [ name |-> <<99,97,114,98,111,110>>, symbol |-> <<67>>, atomic_number |-> 6,
      atomic_mass |-> 120110, electrons_per_shell |-> <<2,4>>,
      state |-> Some(<<115,111,108,105,100>>), group |-> Some(14), period |-> 2,
      melting_point_k |-> Some(38230000), boiling_point_k |-> Some(51000000),
      density |-> Some(Dec(2, 27000000)),
      natural |-> TRUE, has_stable_isotope |-> TRUE, discovery_year |-> Some(1789) ] ],
  \* case "nitrogen" | "n" | 7:
  [ strs |-> {<<110,105,116,114,111,103,101,110>>, <<110>>}, int |-> 7,
    attrs |-> [ name |-> <<110,105,116,114,111,103,101,110>>, symbol |-> <<78>>, atomic_number |-> 7,
      atomic_mass |-> 140070, electrons_per_shell |-> <<2,5>>,
      state |-> Some(<<103,97,115>>), group |-> Some(15), period |-> 2,
      melting_point_k |-> Some(632300), boiling_point_k |-> Some(773550),
      density |-> Some(Dec(0, 125000)),
      natural |-> TRUE, has_stable_isotope |-> TRUE, discovery_year |-> Some(1772) ] ],
  \* case "oxygen" | "o" | 8:
  [ strs |-> {<<111,120,121,103,101,110>>, <<111>>}, int |-> 8,
    attrs |-> [ name |-> <<111,120,121,103,101,110>>, symbol |-> <<79>>, atomic_number |-> 8,
      atomic_mass |-> 159990, electrons_per_shell |-> <<2,6>>,
      state |-> Some(<<103,97,115>>), group |-> Some(16), period |-> 2,
      melting_point_k |-> Some(543600), boiling_point_k |-> Some(901880),
      density |-> Some(Dec(0, 142900)),
      natural |-> TRUE, has_stable_isotope |-> TRUE, discovery_year |-> Some(1771) ] ],
  \* case "fluorine" | "f" | 9:
  [ strs |-> {<<102,108,117,111,114,105,110,101>>, <<102>>}, int |-> 9,
    attrs |-> [ name |-> <<102,108,117,111,114,105,110,101>>, symbol |-> <<70>>, atomic_number |-> 9,
      atomic_mass |-> 189980, electrons_per_shell |-> <<2,7>>,
      state |-> Some(<<103,97,115>>), group |-> Some(17), period |-> 2,
      melting_point_k |-> Some(534800), boiling_point_k |-> Some(850300),
      density |-> Some(Dec(0, 169600)),
      natural |-> TRUE, has_stable_isotope |-> TRUE, discovery_year |-> Some(1810) ] ],
  \* case "neon" | "ne" | 10:
  [ strs |-> {<<110,101,111,110>>, <<110,101>>}, int |-> 10,
    attrs |-> [ name |-> <<110,101,111,110>>, symbol |-> <<78,101>>, atomic_number |-> 10,
      atomic_mass |-> 201800, electrons_per_shell |-> <<2,8>>,
      state |-> Some(<<103,97,115>>), group |-> Some(18), period |-> 2,
      melting_point_k |-> Some(245600), boiling_point_k |-> Some(271040),
      density |-> Some(Dec(0, 90020)),
      natural |-> TRUE, has_stable_isotope |-> TRUE, discovery_year |-> Some(1898) ] ],
  \* case "sodium" | "na" | 11:
  [ strs |-> {<<115,111,100,105,117,109>>, <<110,97>>}, int |-> 11,
    attrs |-> [ name |-> <<115,111,100,105,117,109>>, symbol |-> <<78,97>>, atomic_number |-> 11,
      atomic_mass |-> 229900, electrons_per_shell |-> <<2,8,1>>,
      state |-> Some(<<115,111,108,105,100>>), group |-> Some(1), period |-> 3,
      melting_point_k |-> Some(3709440), boiling_point_k |-> Some(11560900),
      density |-> Some(Dec(0, 96800000)),
      natural |-> TRUE, has_stable_isotope |-> TRUE, discovery_year |-> Some(1807) ] ],
  \* case "magnesium" | "mg" | 12:
  [ strs |-> {<<109,97,103,110,101,115,105,117,109>>, <<109,103>>}, int |-> 12,
    attrs |-> [ name |-> <<109,97,103,110,101,115,105,117,109>>, symbol |-> <<77,103>>, atomic_number |-> 12,
      atomic_mass |-> 243050, electrons_per_shell |-> <<2,8,2>>,
      state |-> Some(<<115,111,108,105,100>>), group |-> Some(2), period |-> 3,
      melting_point_k |-> Some(9230000), boiling_point_k |-> Some(13630000),
      density |-> Some(Dec(1, 73800000)),
      natural |-> TRUE, has_stable_isotope |-> TRUE, discovery_year |-> Some(1755) ] ],
  \* case "aluminium" | "aluminum" | "al" | 13:
  [ strs |-> {<<97,108,117,109,105,110,105,117,109>>, <<97,108,117,109,105,110,117,109>>, <<97,108>>}, int |-> 13,
    attrs |-> [ name |-> <<97,108,117,109,105,110,105,117,109>>, symbol |-> <<65,108>>, atomic_number |-> 13,
      atomic_mass |-> 269820, electrons_per_shell |-> <<2,8,3>>,
      state |-> Some(<<115,111,108,105,100>>), group |-> Some(13), period |-> 3,
      melting_point_k |-> Some(9334700), boiling_point_k |-> Some(27430000),
      density |-> Some(Dec(2, 70000000)),
      natural |-> TRUE, has_stable_isotope |-> TRUE, discovery_year |-> Some(1824) ] ],
  \* case "silicon" | "si" | 14:
  [ strs |-> {<<115,105,108,105,99,111,110>>, <<115,105>>}, int |-> 14,
    attrs |-> [ name |-> <<115,105,108,105,99,111,110>>, symbol |-> <<83,105>>, atomic_number |-> 14,
      atomic_mass |-> 280850, electrons_per_shell |-> <<2,8,4>>,
      state |-> Some(<<115,111,108,105,100>>), group |-> Some(14), period |-> 3,
      melting_point_k |-> Some(14140000), boiling_point_k |-> Some(35380000),
      density |-> Some(Dec(2, 32900000)),
      natural |-> TRUE, has_stable_isotope |-> TRUE, discovery_year |-> Some(1823) ] ],
  \* case "phosphorus" | "p" | 15:
  [ strs |-> {<<112,104,111,115,112,104,111,114,117,115>>, <<112>>}, int |-> 15,
    attrs |-> [ name |-> <<112,104,111,115,112,104,111,114,117,115>>, symbol |-> <<80>>, atomic_number |-> 15,
      atomic_mass |-> 309740, electrons_per_shell |-> <<2,8,5>>,
      state |-> Some(<<115,111,108,105,100>>), group |-> Some(15), period |-> 3,
      melting_point_k |-> Some(3173000), boiling_point_k |-> Some(5537000),
      density |-> Some(Dec(1, 82300000)),
      natural |-> TRUE, has_stable_isotope |-> TRUE, discovery_year |-> Some(1669) ] ],
  \* case "sulfur" | "sulphur" | "s" | 16:
  [ strs |-> {<<115,117,108,102,117,114>>, <<115,117,108,112,104,117,114>>, <<115>>}, int |-> 16,
    attrs |-> [ name |-> <<115,117,108,102,117,114>>, symbol |-> <<83>>, atomic_number |-> 16,
      atomic_mass |-> 320600, electrons_per_shell |-> <<2,8,6>>,
      state |-> Some(<<115,111,108,105,100>>), group |-> Some(16), period |-> 3,
      melting_point_k |-> Some(3883600), boiling_point_k |-> Some(7178000),
      density |-> Some(Dec(2, 7000000)),
      natural |-> TRUE, has_stable_isotope |-> TRUE, discovery_year |-> Some(1777) ] ],
  \* case "chlorine" | "cl" | 17:
  [ strs |-> {<<99,104,108,111,114,105,110,101>>, <<99,108>>}, int |-> 17,
    attrs |-> [ name |-> <<99,104,108,111,114,105,110,101>>, symbol |-> <<67,108>>, atomic_number |-> 17,
      atomic_mass |-> 354500, electrons_per_shell |-> <<2,8,7>>,
      state |-> Some(<<103,97,115>>), group |-> Some(17), period |-> 3,
      melting_point_k |-> Some(1716000), boiling_point_k |-> Some(2391100),
      density |-> Some(Dec(0, 320000)),
      natural |-> TRUE, has_stable_isotope |-> TRUE, discovery_year |-> Some(1774) ] ],
  \* case "argon" | "ar" | 18:
  [ strs |-> {<<97,114,103,111,110>>, <<97,114>>}, int |-> 18,
    attrs |-> [ name |-> <<97,114,103,111,110>>, symbol |-> <<65,114>>, atomic_number |-> 18,
      atomic_mass |-> 399500, electrons_per_shell |-> <<2,8,8>>,
      state |-> Some(<<103,97,115>>), group |-> Some(18), period |-> 3,
      melting_point_k |-> Some(838100), boiling_point_k |-> Some(873020),
      density |-> Some(Dec(0, 178400)),
      natural |-> TRUE, has_stable_isotope |-> TRUE, discovery_year |-> Some(1894) ] ],
  \* case "potassium" | "k" | 19:
  [ strs |-> {<<112,111,116,97,115,115,105,117,109>>, <<107>>}, int |-> 19,
    attrs |-> [ name |-> <<112,111,116,97,115,115,105,117,109>>, symbol |-> <<75>>, atomic_number |-> 19,
      atomic_mass |-> 390980, electrons_per_shell |-> <<2,8,8,1>>,
      state |-> Some(<<115,111,108,105,100>>), group |-> Some(1), period |-> 4,
      melting_point_k |-> Some(3367000), boiling_point_k |-> Some(10320000),
      density |-> Some(Dec(0, 89000000)),
      natural |-> TRUE, has_stable_isotope |-> TRUE, discovery_year |-> Some(1807) ] ],
  \* case "calcium" | "ca" | 20:
  [ strs |-> {<<99,97,108,99,105,117,109>>, <<99,97>>}, int |-> 20,
    attrs |-> [ name |-> <<99,97,108,99,105,117,109>>, symbol |-> <<67,97>>, atomic_number |-> 20,
      atomic_mass |-> 400780, electrons_per_shell |-> <<2,8,8,2>>,
      state |-> Some(<<115,111,108,105,100>>), group |-> Some(2), period |-> 4,
      melting_point_k |-> Some(11150000), boiling_point_k |-> Some(17570000),
      density |-> Some(Dec(1, 55000000)),
      natural |-> TRUE, has_stable_isotope |-> TRUE, discovery_year |-> Some(1808) ] ],
  \* case "scandium" | "sc" | 21:
  [ strs |-> {<<115,99,97,110,100,105,117,109>>, <<115,99>>}, int |-> 21,
    attrs |-> [ name |-> <<115,99,97,110,100,105,117,109>>, symbol |-> <<83,99>>, atomic_number |-> 21,
      atomic_mass |-> 449560, electrons_per_shell |-> <<2,8,9,2>>,
      state |-> Some(<<115,111,108,105,100>>), group |-> Some(3), period |-> 4,
      melting_point_k |-> Some(18140000), boiling_point_k |-> Some(31090000),
      density |-> Some(Dec(2, 98500000)),
      natural |-> TRUE, has_stable_isotope |-> TRUE, discovery_year |-> Some(1879) ] ],
  \* case "titanium" | "ti" | 22:
  [ strs |-> {<<116,105,116,97,110,105,117,109>>, <<116,105>>}, int |-> 22,
    attrs |-> [ name |-> <<116,105,116,97,110,105,117,109>>, symbol |-> <<84,105>>, atomic_number |-> 22,
      atomic_mass |-> 478670, electrons_per_shell |-> <<2,8,10,2>>,
      state |-> Some(<<115,111,108,105,100>>), group |-> Some(4), period |-> 4,
      melting_point_k |-> Some(19410000), boiling_point_k |-> Some(35600000),
      density |-> Some(Dec(4, 50600000)),
      natural |-> TRUE, has_stable_isotope |-> TRUE, discovery_year |-> Some(1791) ] ],
  \* case "vanadium" | "v" | 23:
  [ strs |-> {<<118,97,110,97,100,105,117,109>>, <<118>>}, int |-> 23,
    attrs |-> [ name |-> <<118,97,110,97,100,105,117,109>>, symbol |-> <<86>>, atomic_number |-> 23,
      atomic_mass |-> 509420, electrons_per_shell |-> <<2,8,11,2>>,
      state |-> Some(<<115,111,108,105,100>>), group |-> Some(5), period |-> 4,
      melting_point_k |-> Some(21830000), boiling_point_k |-> Some(36800000),
      density |-> Some(Dec(6, 11000000)),
      natural |-> TRUE, has_stable_isotope |-> TRUE, discovery_year |-> Some(1830) ] ],
  \* case "chromium" | "cr" | 24:
  [ strs |-> {<<99,104,114,111,109,105,117,109>>, <<99,114>>}, int |-> 24,
    attrs |-> [ name |-> <<99,104,114,111,109,105,117,109>>, symbol |-> <<67,114>>, atomic_number |-> 24,
      atomic_mass |-> 519960, electrons_per_shell |-> <<2,8,13,1>>,
      state |-> Some(<<115,111,108,105,100>>), group |-> Some(6), period |-> 4,
      melting_point_k |-> Some(21800000), boiling_point_k |-> Some(29440000),
      density |-> Some(Dec(7, 15000000)),
      natural |-> TRUE, has_stable_isotope |-> TRUE, discovery_year |-> Some(1794) ] ],
  \* case "manganese" | "mn" | 25:
  [ strs |-> {<<109,97,110,103,97,110,101,115,101>>, <<109,110>>}, int |-> 25,
    attrs |-> [ name |-> <<109,97,110,103,97,110,101,115,101>>, symbol |-> <<77,110>>, atomic_number |-> 25,
      atomic_mass |-> 549380, electrons_per_shell |-> <<2,8,13,2>>,
      state |-> Some(<<115,111,108,105,100>>), group |-> Some(7), period |-> 4,
      melting_point_k |-> Some(15190000), boiling_point_k |-> Some(23340000),
      density |-> Some(Dec(7, 21000000)),
      natural |-> TRUE, has_stable_isotope |-> TRUE, discovery_year |-> Some(1774) ] ],
  \* case "iron" | "fe" | 26:
  [ strs |-> {<<105,114,111,110>>, <<102,101>>}, int |-> 26,
    attrs |-> [ name |-> <<105,114,111,110>>, symbol |-> <<70,101>>, atomic_number |-> 26,
      atomic_mass |-> 558450, electrons_per_shell |-> <<2,8,14,2>>,
      state |-> Some(<<115,111,108,105,100>>), group |-> Some(8), period |-> 4,
      melting_point_k |-> Some(18110000), boiling_point_k |-> Some(31340000),
      density |-> Some(Dec(7, 87400000)),
      natural |-> TRUE, has_stable_isotope |-> TRUE, discovery_year |-> None ] ],
  \* case "cobalt" | "co" | 27:
  [ strs |-> {<<99,111,98,97,108,116>>, <<99,111>>}, int |-> 27,
    attrs |-> [ name |-> <<99,111,98,97,108,116>>, symbol |-> <<67,111>>, atomic_number |-> 27,
      atomic_mass |-> 589330, electrons_per_shell |-> <<2,8,15,2>>,
      state |-> Some(<<115,111,108,105,100>>), group |-> Some(9), period |-> 4,
      melting_point_k |-> Some(17680000), boiling_point_k |-> Some(32000000),
      density |-> Some(Dec(8, 90000000)),
      natural |-> TRUE, has_stable_isotope |-> TRUE, discovery_year |-> Some(1735) ] ],
  \* case "nickel" | "ni" | 28:
  [ strs |-> {<<110,105,99,107,101,108>>, <<110,105>>}, int |-> 28,
    attrs |-> [ name |-> <<110,105,99,107,101,108>>, symbol |-> <<78,105>>, atomic_number |-> 28,
      atomic_mass |-> 586930, electrons_per_shell |-> <<2,8,16,2>>,
      state |-> Some(<<115,111,108,105,100>>), group |-> Some(10), period |-> 4,
      melting_point_k |-> Some(17280000), boiling_point_k |-> Some(30030000),
      density |-> Some(Dec(8, 90800000)),
      natural |-> TRUE, has_stable_isotope |-> TRUE, discovery_year |-> Some(1751) ] ],
  \* case "copper" | "cu" | 29:
  [ strs |-> {<<99,111,112,112,101,114>>, <<99,117>>}, int |-> 29,
    attrs |-> [ name |-> <<99,111,112,112,101,114>>, symbol |-> <<67,117>>, atomic_number |-> 29,
      atomic_mass |-> 635460, electrons_per_shell |-> <<2,8,18,1>>,
      state |-> Some(<<115,111,108,105,100>>), group |-> Some(11), period |-> 4,
      melting_point_k |-> Some(13577700), boiling_point_k |-> Some(28350000),
      density |-> Some(Dec(8, 96000000)),
      natural |-> TRUE, has_stable_isotope |-> TRUE, discovery_year |-> Some(-9000) ] ],
  \* case "zinc" | "zn" | 30:
  [ strs |-> {<<122,105,110,99>>, <<122,110>>}, int |-> 30,
    attrs |-> [ name |-> <<122,105,110,99>>, symbol |-> <<90,110>>, atomic_number |-> 30,
      atomic_mass |-> 653800, electrons_per_shell |-> <<2,8,18,2>>,
      state |-> Some(<<115,111,108,105,100>>), group |-> Some(12), period |-> 4,
      melting_point_k |-> Some(6926800), boiling_point_k |-> Some(11800000),
      density |-> Some(Dec(7, 14000000)),
      natural |-> TRUE, has_stable_isotope |-> TRUE, discovery_year |-> Some(1746) ] ],
  \* case "gallium" | "ga" | 31:
  [ strs |-> {<<103,97,108,108,105,117,109>>, <<103,97>>}, int |-> 31,
    attrs |-> [ name |-> <<103,97,108,108,105,117,109>>, symbol |-> <<71,97>>, atomic_number |-> 31,
      atomic_mass |-> 697230, electrons_per_shell |-> <<2,8,18,3>>,
      state |-> Some(<<115,111,108,105,100>>), group |-> Some(13), period |-> 4,
      melting_point_k |-> Some(3029146), boiling_point_k |-> Some(26730000),
      density |-> Some(Dec(5, 91000000)),
      natural |-> TRUE, has_stable_isotope |-> TRUE, discovery_year |-> Some(1875) ] ],
  \* case "germanium" | "ge" | 32:
  [ strs |-> {<<103,101,114,109,97,110,105,117,109>>, <<103,101>>}, int |-> 32,
    attrs |-> [ name |-> <<103,101,114,109,97,110,105,117,109>>, symbol |-> <<71,101>>, atomic_number |-> 32,
      atomic_mass |-> 726300, electrons_per_shell |-> <<2,8,18,4>>,
      state |-> Some(<<115,111,108,105,100>>), group |-> Some(14), period |-> 4,
      melting_point_k |-> Some(12114000), boiling_point_k |-> Some(31060000),
      density |-> Some(Dec(5, 32300000)),
      natural |-> TRUE, has_stable_isotope |-> TRUE, discovery_year |-> Some(1886) ] ],
  \* case "arsenic" | "as" | 33:
  [ strs |-> {<<97,114,115,101,110,105,99>>, <<97,115>>}, int |-> 33,
    attrs |-> [ name |-> <<97,114,115,101,110,105,99>>, symbol |-> <<65,115>>, atomic_number |-> 33,
      atomic_mass |-> 749220, electrons_per_shell |-> <<2,8,18,5>>,
      state |-> Some(<<115,111,108,105,100>>), group |-> Some(15), period |-> 4,
      melting_point_k |-> Some(10900000), boiling_point_k |-> Some(8870000),
      density |-> Some(Dec(5, 72700000)),
      natural |-> TRUE, has_stable_isotope |-> TRUE, discovery_year |-> Some(1250) ] ],
  \* case "selenium" | "se" | 34:
  [ strs |-> {<<115,101,108,101,110,105,117,109>>, <<115,101>>}, int |-> 34,
    attrs |-> [ name |-> <<115,101,108,101,110,105,117,109>>, symbol |-> <<83,101>>, atomic_number |-> 34,
      atomic_mass |-> 789710, electrons_per_shell |-> <<2,8,18,6>>,
      state |-> Some(<<115,111,108,105,100>>), group |-> Some(16), period |-> 4,
      melting_point_k |-> Some(4940000), boiling_point_k |-> Some(9580000),
      density |-> Some(Dec(4, 81000000)),
      natural |-> TRUE, has_stable_isotope |-> TRUE, discovery_year |-> Some(1817) ] ],
  \* case "bromine" | "br" | 35:
  [ strs |-> {<<98,114,111,109,105,110,101>>, <<98,114>>}, int |-> 35,
    attrs |-> [ name |-> <<98,114,111,109,105,110,101>>, symbol |-> <<66,114>>, atomic_number |-> 35,
      atomic_mass |-> 799040, electrons_per_shell |-> <<2,8,18,7>>,
      state |-> Some(<<108,105,113,117,105,100>>), group |-> Some(17), period |-> 4,
      melting_point_k |-> Some(2658000), boiling_point_k |-> Some(3320000),
      density |-> Some(Dec(3, 10280000)),
      natural |-> TRUE, has_stable_isotope |-> TRUE, discovery_year |-> Some(1825) ] ],
  \* case "krypton" | "kr" | 36:
  [ strs |-> {<<107,114,121,112,116,111,110>>, <<107,114>>}, int |-> 36,
    attrs |-> [ name |-> <<107,114,121,112,116,111,110>>, symbol |-> <<75,114>>, atomic_number |-> 36,
      atomic_mass |-> 837980, electrons_per_shell |-> <<2,8,18,8>>,
      state |-> Some(<<103,97,115>>), group |-> Some(18), period |-> 4,
      melting_point_k |-> Some(1157800), boiling_point_k |-> Some(1199300),
      density |-> Some(Dec(0, 374900)),
      natural |-> TRUE, has_stable_isotope |-> TRUE, discovery_year |-> Some(1898) ] ],
  \* case "rubidium" | "rb" | 37:
  [ strs |-> {<<114,117,98,105,100,105,117,109>>, <<114,98>>}, int |-> 37,
    attrs |-> [ name |-> <<114,117,98,105,100,105,117,109>>, symbol |-> <<82,98>>, atomic_number |-> 37,
      atomic_mass |-> 854680, electrons_per_shell |-> <<2,8,18,8,1>>,
      state |-> Some(<<115,111,108,105,100>>), group |-> Some(1), period |-> 5,
      melting_point_k |-> Some(3124500), boiling_point_k |-> Some(9610000),
      density |-> Some(Dec(1, 53200000)),
      natural |-> TRUE, has_stable_isotope |-> TRUE, discovery_year |-> Some(1861) ] ],
  \* case "strontium" | "sr" | 38:
  [ strs |-> {<<115,116,114,111,110,116,105,117,109>>, <<115,114>>}, int |-> 38,
    attrs |-> [ name |-> <<115,116,114,111,110,116,105,117,109>>, symbol |-> <<83,114>>, atomic_number |-> 38,
      atomic_mass |-> 876200, electrons_per_shell |-> <<2,8,18,8,2>>,
      state |-> Some(<<115,111,108,105,100>>), group |-> Some(2), period |-> 5,
      melting_point_k |-> Some(10500000), boiling_point_k |-> Some(16500000),
      density |-> Some(Dec(2, 64000000)),
      natural |-> TRUE, has_stable_isotope |-> TRUE, discovery_year |-> Some(1787) ] ],
  \* case "yttrium" | "y" | 39:
  [ strs |-> {<<121,116,116,114,105,117,109>>, <<121>>}, int |-> 39,
    attrs |-> [ name |-> <<121,116,116,114,105,117,109>>, symbol |-> <<89>>, atomic_number |-> 39,
      atomic_mass |-> 889060, electrons_per_shell |-> <<2,8,18,9,2>>,
      state |-> Some(<<115,111,108,105,100>>), group |-> Some(3), period |-> 5,
      melting_point_k |-> Some(17990000), boiling_point_k |-> Some(32030000),
      density |-> Some(Dec(4, 47200000)),
      natural |-> TRUE, has_stable_isotope |-> TRUE, discovery_year |-> Some(1794) ] ],
  \* case "zirconium" | "zr" | 40:
  [ strs |-> {<<122,105,114,99,111,110,105,117,109>>, <<122,114>>}, int |-> 40,
    attrs |-> [ name |-> <<122,105,114,99,111,110,105,117,109>>, symbol |-> <<90,114>>, atomic_number |-> 40,
      atomic_mass |-> 912240, electrons_per_shell |-> <<2,8,18,10,2>>,
      state |-> Some(<<115,111,108,105,100>>), group |-> Some(4), period |-> 5,
      melting_point_k |-> Some(21250000), boiling_point_k |-> Some(46500000),
      density |-> Some(Dec(6, 52000000)),
      natural |-> TRUE, has_stable_isotope |-> TRUE, discovery_year |-> Some(1789) ] ],
  \* case "niobium" | "nb" | 41:
  [ strs |-> {<<110,105,111,98,105,117,109>>, <<110,98>>}, int |-> 41,
    attrs |-> [ name |-> <<110,105,111,98,105,117,109>>, symbol |-> <<78,98>>, atomic_number |-> 41,
      atomic_mass |-> 929060, electrons_per_shell |-> <<2,8,18,12,1>>,
      state |-> Some(<<115,111,108,105,100>>), group |-> Some(5), period |-> 5,
      melting_point_k |-> Some(27500000), boiling_point_k |-> Some(50170000),
      density |-> Some(Dec(8, 57000000)),
      natural |-> TRUE, has_stable_isotope |-> TRUE, discovery_year |-> Some(1801) ] ],
  \* case "molybdenum" | "mo" | 42:
  [ strs |-> {<<109,111,108,121,98,100,101,110,117,109>>, <<109,111>>}, int |-> 42,
    attrs |-> [ name |-> <<109,111,108,121,98,100,101,110,117,109>>, symbol |-> <<77,111>>, atomic_number |-> 42,
      atomic_mass |-> 959500, electrons_per_shell |-> <<2,8,18,13,1>>,
      state |-> Some(<<115,111,108,105,100>>), group |-> Some(6), period |-> 5,
      melting_point_k |-> Some(28960000), boiling_point_k |-> Some(49120000),
      density |-> Some(Dec(10, 28000000)),
      natural |-> TRUE, has_stable_isotope |-> TRUE, discovery_year |-> Some(1778) ] ],
  \* case "technetium" | "tc" | 43:
  [ strs |-> {<<116,101,99,104,110,101,116,105,117,109>>, <<116,99>>}, int |-> 43,
    attrs |-> [ name |-> <<116,101,99,104,110,101,116,105,117,109>>, symbol |-> <<84,99>>, atomic_number |-> 43,
      atomic_mass |-> 980000, electrons_per_shell |-> <<2,8,18,13,2>>,
      state |-> Some(<<115,111,108,105,100>>), group |-> Some(7), period |-> 5,
      melting_point_k |-> Some(24300000), boiling_point_k |-> Some(45380000),
      density |-> Some(Dec(11, 0)),
      natural |-> TRUE, has_stable_isotope |-> FALSE, discovery_year |-> Some(1937) ] ],
  \* case "ruthenium" | "ru" | 44:
  [ strs |-> {<<114,117,116,104,101,110,105,117,109>>, <<114,117>>}, int |-> 44,
    attrs |-> [ name |-> <<114,117,116,104,101,110,105,117,109>>, symbol |-> <<82,117>>, atomic_number |-> 44,
      atomic_mass |-> 1010700, electrons_per_shell |-> <<2,8,18,15,1>>,
      state |-> Some(<<115,111,108,105,100>>), group |-> Some(8), period |-> 5,
      melting_point_k |-> Some(26070000), boiling_point_k |-> Some(44230000),
      density |-> Some(Dec(12, 45000000)),
      natural |-> TRUE, has_stable_isotope |-> TRUE, discovery_year |-> Some(1844) ] ],
  \* case "rhodium" | "rh" | 45:
  [ strs |-> {<<114,104,111,100,105,117,109>>, <<114,104>>}, int |-> 45,
    attrs |-> [ name |-> <<114,104,111,100,105,117,109>>, symbol |-> <<82,104>>, atomic_number |-> 45,
      atomic_mass |-> 1029100, electrons_per_shell |-> <<2,8,18,16,1>>,
      state |-> Some(<<115,111,108,105,100>>), group |-> Some(9), period |-> 5,
      melting_point_k |-> Some(22370000), boiling_point_k |-> Some(39680000),
      density |-> Some(Dec(12, 41000000)),
      natural |-> TRUE, has_stable_isotope |-> TRUE, discovery_year |-> Some(1804) ] ],
  \* case "palladium" | "pd" | 46:
  [ strs |-> {<<112,97,108,108,97,100,105,117,109>>, <<112,100>>}, int |-> 46,
    attrs |-> [ name |-> <<112,97,108,108,97,100,105,117,109>>, symbol |-> <<80,100>>, atomic_number |-> 46,
      atomic_mass |-> 1064200, electrons_per_shell |-> <<2,8,18,18>>,
      state |-> Some(<<115,111,108,105,100>>), group |-> Some(10), period |-> 5,
      melting_point_k |-> Some(18280500), boiling_point_k |-> Some(32360000),
      density |-> Some(Dec(12, 2300000)),
      natural |-> TRUE, has_stable_isotope |-> TRUE, discovery_year |-> Some(1802) ] ],
  \* case "silver" | "ag" | 47:
  [ strs |-> {<<115,105,108,118,101,114>>, <<97,103>>}, int |-> 47,
    attrs |-> [ name |-> <<115,105,108,118,101,114>>, symbol |-> <<65,103>>, atomic_number |-> 47,
      atomic_mass |-> 1078700, electrons_per_shell |-> <<2,8,18,18,1>>,
      state |-> Some(<<115,111,108,105,100>>), group |-> Some(11), period |-> 5,
      melting_point_k |-> Some(12349300), boiling_point_k |-> Some(24350000),
      density |-> Some(Dec(10, 49000000)),
      natural |-> TRUE, has_stable_isotope |-> TRUE, discovery_year |-> None ] ],
  \* case "cadmium" | "cd" | 48:
  [ strs |-> {<<99,97,100,109,105,117,109>>, <<99,100>>}, int |-> 48,
    attrs |-> [ name |-> <<99,97,100,109,105,117,109>>, symbol |-> <<67,100>>, atomic_number |-> 48,
      atomic_mass |-> 1124100, electrons_per_shell |-> <<2,8,18,18,2>>,
      state |-> Some(<<115,111,108,105,100>>), group |-> Some(12), period |-> 5,
      melting_point_k |-> Some(5942200), boiling_point_k |-> Some(10400000),
      density |-> Some(Dec(8, 65000000)),
      natural |-> TRUE, has_stable_isotope |-> TRUE, discovery_year |-> Some(1817) ] ],
  \* case "indium" | "in" | 49:
  [ strs |-> {<<105,110,100,105,117,109>>, <<105,110>>}, int |-> 49,
    attrs |-> [ name |-> <<105,110,100,105,117,109>>, symbol |-> <<73,110>>, atomic_number |-> 49,
      atomic_mass |-> 1148200, electrons_per_shell |-> <<2,8,18,18,3>>,
      state |-> Some(<<115,111,108,105,100>>), group |-> Some(13), period |-> 5,
      melting_point_k |-> Some(4297485), boiling_point_k |-> Some(23450000),
      density |-> Some(Dec(7, 31000000)),
      natural |-> TRUE, has_stable_isotope |-> TRUE, discovery_year |-> Some(1863) ] ],
  \* case "tin" | "sn" | 50:
  [ strs |-> {<<116,105,110>>, <<115,110>>}, int |-> 50,
    attrs |-> [ name |-> <<116,105,110>>, symbol |-> <<83,110>>, atomic_number |-> 50,
      atomic_mass |-> 1187100, electrons_per_shell |-> <<2,8,18,18,4>>,
      state |-> Some(<<115,111,108,105,100>>), group |-> Some(14), period |-> 5,
      melting_point_k |-> Some(5050800), boiling_point_k |-> Some(28750000),
      density |-> Some(Dec(7, 26500000)),
      natural |-> TRUE, has_stable_isotope |-> TRUE, discovery_year |-> None ] ],
  \* case "antimony" | "sb" | 51:
  [ strs |-> {<<97,110,116,105,109,111,110,121>>, <<115,98>>}, int |-> 51,
    attrs |-> [ name |-> <<97,110,116,105,109,111,110,121>>, symbol |-> <<83,98>>, atomic_number |-> 51,
      atomic_mass |-> 1217600, electrons_per_shell |-> <<2,8,18,18,5>>,
      state |-> Some(<<115,111,108,105,100>>), group |-> Some(15), period |-> 5,
      melting_point_k |-> Some(9037800), boiling_point_k |-> Some(19080000),
      density |-> Some(Dec(6, 69700000)),
      natural |-> TRUE, has_stable_isotope |-> TRUE, discovery_year |-> None ] ],
  \* case "tellurium" | "te" | 52:
  [ strs |-> {<<116,101,108,108,117,114,105,117,109>>, <<116,101>>}, int |-> 52,
    attrs |-> [ name |-> <<116,101,108,108,117,114,105,117,109>>, symbol |-> <<84,101>>, atomic_number |-> 52,
      atomic_mass |-> 1276000, electrons_per_shell |-> <<2,8,18,18,6>>,
      state |-> Some(<<115,111,108,105,100>>), group |-> Some(16), period |-> 5,
      melting_point_k |-> Some(7226600), boiling_point_k |-> Some(12610000),
      density |-> Some(Dec(6, 24000000)),
      natural |-> TRUE, has_stable_isotope |-> TRUE, discovery_year |-> Some(1782) ] ],
  \* case "iodine" | "i" | 53:
  [ strs |-> {<<105,111,100,105,110,101>>, <<105>>}, int |-> 53,
    attrs |-> [ name |-> <<105,111,100,105,110,101>>, symbol |-> <<73>>, atomic_number |-> 53,
      atomic_mass |-> 1269000, electrons_per_shell |-> <<2,8,18,18,7>>,
      state |-> Some(<<115,111,108,105,100>>), group |-> Some(17), period |-> 5,
      melting_point_k |-> Some(3868500), boiling_point_k |-> Some(4574000),
      density |-> Some(Dec(4, 93300000)),
      natural |-> TRUE, has_stable_isotope |-> TRUE, discovery_year |-> Some(1811) ] ],
  \* case "xenon" | "xe" | 54:
  [ strs |-> {<<120,101,110,111,110>>, <<120,101>>}, int |-> 54,
    attrs |-> [ name |-> <<120,101,110,111,110>>, symbol |-> <<88,101>>, atomic_number |-> 54,
      atomic_mass |-> 1312900, electrons_per_shell |-> <<2,8,18,18,8>>,
      state |-> Some(<<103,97,115>>), group |-> Some(18), period |-> 5,
      melting_point_k |-> Some(1614000), boiling_point_k |-> Some(1650510),
      density |-> Some(Dec(0, 589400)),
      natural |-> TRUE, has_stable_isotope |-> TRUE, discovery_year |-> Some(1898) ] ],
  \* case "caesium" | "cesium" | "cs" | 55:
  [ strs |-> {<<99,97,101,115,105,117,109>>, <<99,101,115,105,117,109>>, <<99,115>>}, int |-> 55,
    attrs |-> [ name |-> <<99,97,101,115,105,117,109>>, symbol |-> <<67,115>>, atomic_number |-> 55,
      atomic_mass |-> 1329100, electrons_per_shell |-> <<2,8,18,18,8,1>>,
      state |-> Some(<<115,111,108,105,100>>), group |-> Some(1), period |-> 6,
      melting_point_k |-> Some(3017000), boiling_point_k |-> Some(9440000),
      density |-> Some(Dec(1, 93000000)),
      natural |-> TRUE, has_stable_isotope |-> TRUE, discovery_year |-> Some(1860) ] ],
  \* case "barium" | "ba" | 56:
  [ strs |-> {<<98,97,114,105,117,109>>, <<98,97>>}, int |-> 56,
    attrs |-> [ name |-> <<98,97,114,105,117,109>>, symbol |-> <<66,97>>, atomic_number |-> 56,
      atomic_mass |-> 1373300, electrons_per_shell |-> <<2,8,18,18,8,2>>,
      state |-> Some(<<115,111,108,105,100>>), group |-> Some(2), period |-> 6,
      melting_point_k |-> Some(10000000), boiling_point_k |-> Some(21180000),
      density |-> Some(Dec(3, 51000000)),
      natural |-> TRUE, has_stable_isotope |-> TRUE, discovery_year |-> Some(1772) ] ],
  \* case "lanthanum" | "la" | 57:
  [ strs |-> {<<108,97,110,116,104,97,110,117,109>>, <<108,97>>}, int |-> 57,
    attrs |-> [ name |-> <<108,97,110,116,104,97,110,117,109>>, symbol |-> <<76,97>>, atomic_number |-> 57,
      atomic_mass |-> 1389100, electrons_per_shell |-> <<2,8,18,18,9,2>>,
      state |-> Some(<<115,111,108,105,100>>), group |-> None, period |-> 6,
      melting_point_k |-> Some(11930000), boiling_point_k |-> Some(37370000),
      density |-> Some(Dec(6, 16200000)),
      natural |-> TRUE, has_stable_isotope |-> TRUE, discovery_year |-> Some(1838) ] ],
  \* case "cerium" | "ce" | 58:
  [ strs |-> {<<99,101,114,105,117,109>>, <<99,101>>}, int |-> 58,
    attrs |-> [ name |-> <<99,101,114,105,117,109>>, symbol |-> <<67,101>>, atomic_number |-> 58,
      atomic_mass |-> 1401200, electrons_per_shell |-> <<2,8,18,19,9,2>>,
      state |-> Some(<<115,111,108,105,100>>), group |-> None, period |-> 6,
      melting_point_k |-> Some(10680000), boiling_point_k |-> Some(37160000),
      density |-> Some(Dec(6, 77000000)),
      natural |-> TRUE, has_stable_isotope |-> TRUE, discovery_year |-> Some(1803) ] ],
  \* case "praseodymium" | "pr" | 59:
  [ strs |-> {<<112,114,97,115,101,111,100,121,109,105,117,109>>, <<112,114>>}, int |-> 59,
    attrs |-> [ name |-> <<112,114,97,115,101,111,100,121,109,105,117,109>>, symbol |-> <<80,114>>, atomic_number |-> 59,
      atomic_mass |-> 1409100, electrons_per_shell |-> <<2,8,18,21,8,2>>,
      state |-> Some(<<115,111,108,105,100>>), group |-> None, period |-> 6,
      melting_point_k |-> Some(12080000), boiling_point_k |-> Some(34030000),
      density |-> Some(Dec(6, 77000000)),
      natural |-> TRUE, has_stable_isotope |-> TRUE, discovery_year |-> Some(1885) ] ],
  \* case "neodymium" | "nd" | 60:
  [ strs |-> {<<110,101,111,100,121,109,105,117,109>>, <<110,100>>}, int |-> 60,
    attrs |-> [ name |-> <<110,101,111,100,121,109,105,117,109>>, symbol |-> <<78,100>>, atomic_number |-> 60,
      atomic_mass |-> 1442400, electrons_per_shell |-> <<2,8,18,22,8,2>>,
      state |-> Some(<<115,111,108,105,100>>), group |-> None, period |-> 6,
      melting_point_k |-> Some(12970000), boiling_point_k |-> Some(33470000),
      density |-> Some(Dec(7, 1000000)),
      natural |-> TRUE, has_stable_isotope |-> TRUE, discovery_year |-> Some(1885) ] ],
  \* case "promethium" | "pm" | 61:
  [ strs |-> {<<112,114,111,109,101,116,104,105,117,109>>, <<112,109>>}, int |-> 61,
    attrs |-> [ name |-> <<112,114,111,109,101,116,104,105,117,109>>, symbol |-> <<80,109>>, atomic_number |-> 61,
      atomic_mass |-> 1450000, electrons_per_shell |-> <<2,8,18,23,8,2>>,
      state |-> Some(<<115,111,108,105,100>>), group |-> None, period |-> 6,
      melting_point_k |-> Some(13150000), boiling_point_k |-> Some(32730000),
      density |-> Some(Dec(7, 26000000)),
      natural |-> TRUE, has_stable_isotope |-> FALSE, discovery_year |-> Some(1945) ] ],
  \* case "samarium" | "sm" | 62:
  [ strs |-> {<<115,97,109,97,114,105,117,109>>, <<115,109>>}, int |-> 62,
    attrs |-> [ name |-> <<115,97,109,97,114,105,117,109>>, symbol |-> <<83,109>>, atomic_number |-> 62,
      atomic_mass |-> 1503600, electrons_per_shell |-> <<2,8,18,24,8,2>>,
      state |-> Some(<<115,111,108,105,100>>), group |-> None, period |-> 6,
      melting_point_k |-> Some(13450000), boiling_point_k |-> Some(21730000),
      density |-> Some(Dec(7, 52000000)),
      natural |-> TRUE, has_stable_isotope |-> TRUE, discovery_year |-> Some(1879) ] ],
  \* case "europium" | "eu" | 63:
  [ strs |-> {<<101,117,114,111,112,105,117,109>>, <<101,117>>}, int |-> 63,
    attrs |-> [ name |-> <<101,117,114,111,112,105,117,109>>, symbol |-> <<69,117>>, atomic_number |-> 63,
      atomic_mass |-> 1519600, electrons_per_shell |-> <<2,8,18,25,8,2>>,
      state |-> Some(<<115,111,108,105,100>>), group |-> None, period |-> 6,
      melting_point_k |-> Some(10990000), boiling_point_k |-> Some(18020000),
      density |-> Some(Dec(5, 24400000)),
      natural |-> TRUE, has_stable_isotope |-> TRUE, discovery_year |-> Some(1896) ] ],
  \* case "gadolinium" | "gd" | 64:
  [ strs |-> {<<103,97,100,111,108,105,110,105,117,109>>, <<103,100>>}, int |-> 64,
    attrs |-> [ name |-> <<103,97,100,111,108,105,110,105,117,109>>, symbol |-> <<71,100>>, atomic_number |-> 64,
      atomic_mass |-> 1572500, electrons_per_shell |-> <<2,8,18,25,9,2>>,
      state |-> Some(<<115,111,108,105,100>>), group |-> None, period |-> 6,
      melting_point_k |-> Some(15850000), boiling_point_k |-> Some(32730000),
      density |-> Some(Dec(7, 90000000)),
      natural |-> TRUE, has_stable_isotope |-> TRUE, discovery_year |-> Some(1880) ] ],
  \* case "terbium" | "tb" | 65:
  [ strs |-> {<<116,101,114,98,105,117,109>>, <<116,98>>}, int |-> 65,
    attrs |-> [ name |-> <<116,101,114,98,105,117,109>>, symbol |-> <<84,98>>, atomic_number |-> 65,
      atomic_mass |-> 1589300, electrons_per_shell |-> <<2,8,18,27,8,2>>,
      state |-> Some(<<115,111,108,105,100>>), group |-> None, period |-> 6,
      melting_point_k |-> Some(16290000), boiling_point_k |-> Some(33960000),
      density |-> Some(Dec(8, 23000000)),
      natural |-> TRUE, has_stable_isotope |-> TRUE, discovery_year |-> Some(1843) ] ],
  \* case "dysprosium" | "dy" | 66:
  [ strs |-> {<<100,121,115,112,114,111,115,105,117,109>>, <<100,121>>}, int |-> 66,
    attrs |-> [ name |-> <<100,121,115,112,114,111,115,105,117,109>>, symbol |-> <<68,121>>, atomic_number |-> 66,
      atomic_mass |-> 1625000, electrons_per_shell |-> <<2,8,18,28,8,2>>,
      state |-> Some(<<115,111,108,105,100>>), group |-> None, period |-> 6,
      melting_point_k |-> Some(16800000), boiling_point_k |-> Some(28400000),
      density |-> Some(Dec(8, 54000000)),
      natural |-> TRUE, has_stable_isotope |-> TRUE, discovery_year |-> Some(1886) ] ],
  \* case "holmium" | "ho" | 67:
  [ strs |-> {<<104,111,108,109,105,117,109>>, <<104,111>>}, int |-> 67,
    attrs |-> [ name |-> <<104,111,108,109,105,117,109>>, symbol |-> <<72,111>>, atomic_number |-> 67,
      atomic_mass |-> 1649300, electrons_per_shell |-> <<2,8,18,29,8,2>>,
      state |-> Some(<<115,111,108,105,100>>), group |-> None, period |-> 6,
      melting_point_k |-> Some(17340000), boiling_point_k |-> Some(28730000),
      density |-> Some(Dec(8, 79000000)),
      natural |-> TRUE, has_stable_isotope |-> TRUE, discovery_year |-> Some(1878) ] ],
  \* case "erbium" | "er" | 68:
  [ strs |-> {<<101,114,98,105,117,109>>, <<101,114>>}, int |-> 68,
    attrs |-> [ name |-> <<101,114,98,105,117,109>>, symbol |-> <<69,114>>, atomic_number |-> 68,
      atomic_mass |-> 1672600, electrons_per_shell |-> <<2,8,18,30,8,2>>,
      state |-> Some(<<115,111,108,105,100>>), group |-> None, period |-> 6,
      melting_point_k |-> Some(18020000), boiling_point_k |-> Some(31410000),
      density |-> Some(Dec(9, 6600000)),
      natural |-> TRUE, has_stable_isotope |-> TRUE, discovery_year |-> Some(1843) ] ],
  \* case "thulium" | "tm" | 69:
  [ strs |-> {<<116,104,117,108,105,117,109>>, <<116,109>>}, int |-> 69,
    attrs |-> [ name |-> <<116,104,117,108,105,117,109>>, symbol |-> <<84,109>>, atomic_number |-> 69,
      atomic_mass |-> 1689300, electrons_per_shell |-> <<2,8,18,31,8,2>>,
      state |-> Some(<<115,111,108,105,100>>), group |-> None, period |-> 6,
      melting_point_k |-> Some(18180000), boiling_point_k |-> Some(22230000),
      density |-> Some(Dec(9, 32000000)),
      natural |-> TRUE, has_stable_isotope |-> TRUE, discovery_year |-> Some(1879) ] ],
  \* case "ytterbium" | "yb" | 70:
  [ strs |-> {<<121,116,116,101,114,98,105,117,109>>, <<121,98>>}, int |-> 70,
    attrs |-> [ name |-> <<121,116,116,101,114,98,105,117,109>>, symbol |-> <<89,98>>, atomic_number |-> 70,
      atomic_mass |-> 1730500, electrons_per_shell |-> <<2,8,18,32,8,2>>,
      state |-> Some(<<115,111,108,105,100>>), group |-> None, period |-> 6,
      melting_point_k |-> Some(10970000), boiling_point_k |-> Some(14690000),
      density |-> Some(Dec(6, 90000000)),
      natural |-> TRUE, has_stable_isotope |-> TRUE, discovery_year |-> Some(1878) ] ],
  \* case "lutetium" | "lu" | 71:
  [ strs |-> {<<108,117,116,101,116,105,117,109>>, <<108,117>>}, int |-> 71,
    attrs |-> [ name |-> <<108,117,116,101,116,105,117,109>>, symbol |-> <<76,117>>, atomic_number |-> 71,
      atomic_mass |-> 1749700, electrons_per_shell |-> <<2,8,18,32,9,2>>,
      state |-> Some(<<115,111,108,105,100>>), group |-> Some(3), period |-> 6,
      melting_point_k |-> Some(19250000), boiling_point_k |-> Some(36750000),
      density |-> Some(Dec(9, 84100000)),
      natural |-> TRUE, has_stable_isotope |-> TRUE, discovery_year |-> Some(1906) ] ],
  \* case "hafnium" | "hf" | 72:
  [ strs |-> {<<104,97,102,110,105,117,109>>, <<104,102>>}, int |-> 72,
    attrs |-> [ name |-> <<104,97,102,110,105,117,109>>, symbol |-> <<72,102>>, atomic_number |-> 72,
      atomic_mass |-> 1784900, electrons_per_shell |-> <<2,8,18,32,10,2>>,
      state |-> Some(<<115,111,108,105,100>>), group |-> Some(4), period |-> 6,
      melting_point_k |-> Some(25060000), boiling_point_k |-> Some(48760000),
      density |-> Some(Dec(13, 31000000)),
      natural |-> TRUE, has_stable_isotope |-> TRUE, discovery_year |-> Some(1922) ] ],
  \* case "tantalum" | "ta" | 73:
  [ strs |-> {<<116,97,110,116,97,108,117,109>>, <<116,97>>}, int |-> 73,
    attrs |-> [ name |-> <<116,97,110,116,97,108,117,109>>, symbol |-> <<84,97>>, atomic_number |-> 73,
      atomic_mass |-> 1809500, electrons_per_shell |-> <<2,8,18,32,11,2>>,
      state |-> Some(<<115,111,108,105,100>>), group |-> Some(5), period |-> 6,
      melting_point_k |-> Some(32900000), boiling_point_k |-> Some(57310000),
      density |-> Some(Dec(16, 69000000)),
      natural |-> TRUE, has_stable_isotope |-> TRUE, discovery_year |-> Some(1802) ] ],
  \* case "tungsten" | "w" | 74:
  [ strs |-> {<<116,117,110,103,115,116,101,110>>, <<119>>}, int |-> 74,
    attrs |-> [ name |-> <<116,117,110,103,115,116,101,110>>, symbol |-> <<87>>, atomic_number |-> 74,
      atomic_mass |-> 1838400, electrons_per_shell |-> <<2,8,18,32,12,2>>,
      state |-> Some(<<115,111,108,105,100>>), group |-> Some(6), period |-> 6,
      melting_point_k |-> Some(36950000), boiling_point_k |-> Some(62030000),
      density |-> Some(Dec(19, 25000000)),
      natural |-> TRUE, has_stable_isotope |-> TRUE, discovery_year |-> Some(1783) ] ],
  \* case "rhenium" | "re" | 75:
  [ strs |-> {<<114,104,101,110,105,117,109>>, <<114,101>>}, int |-> 75,
    attrs |-> [ name |-> <<114,104,101,110,105,117,109>>, symbol |-> <<82,101>>, atomic_number |-> 75,
      atomic_mass |-> 1862100, electrons_per_shell |-> <<2,8,18,32,13,2>>,
      state |-> Some(<<115,111,108,105,100>>), group |-> Some(7), period |-> 6,
      melting_point_k |-> Some(34590000), boiling_point_k |-> Some(59030000),
      density |-> Some(Dec(21, 2000000)),
      natural |-> TRUE, has_stable_isotope |-> TRUE, discovery_year |-> Some(1925) ] ],
  \* case "osmium" | "os" | 76:
  [ strs |-> {<<111,115,109,105,117,109>>, <<111,115>>}, int |-> 76,
    attrs |-> [ name |-> <<111,115,109,105,117,109>>, symbol |-> <<79,115>>, atomic_number |-> 76,
      atomic_mass |-> 1902300, electrons_per_shell |-> <<2,8,18,32,14,2>>,
      state |-> Some(<<115,111,108,105,100>>), group |-> Some(8), period |-> 6,
      melting_point_k |-> Some(33060000), boiling_point_k |-> Some(52850000),
      density |-> Some(Dec(22, 59000000)),
      natural |-> TRUE, has_stable_isotope |-> TRUE, discovery_year |-> Some(1803) ] ],
  \* case "iridium" | "ir" | 77:
  [ strs |-> {<<105,114,105,100,105,117,109>>, <<105,114>>}, int |-> 77,
    attrs |-> [ name |-> <<105,114,105,100,105,117,109>>, symbol |-> <<73,114>>, atomic_number |-> 77,
      atomic_mass |-> 1922200, electrons_per_shell |-> <<2,8,18,32,15,2>>,
      state |-> Some(<<115,111,108,105,100>>), group |-> Some(9), period |-> 6,
      melting_point_k |-> Some(27190000), boiling_point_k |-> Some(44030000),
      density |-> Some(Dec(22, 56000000)),
      natural |-> TRUE, has_stable_isotope |-> TRUE, discovery_year |-> Some(1803) ] ],
  \* case "platinum" | "pt" | 78:
  [ strs |-> {<<112,108,97,116,105,110,117,109>>, <<112,116>>}, int |-> 78,
    attrs |-> [ name |-> <<112,108,97,116,105,110,117,109>>, symbol |-> <<80,116>>, atomic_number |-> 78,
      atomic_mass |-> 1950800, electrons_per_shell |-> <<2,8,18,32,17,1>>,
      state |-> Some(<<115,111,108,105,100>>), group |-> Some(10), period |-> 6,
      melting_point_k |-> Some(20414000), boiling_point_k |-> Some(40980000),
      density |-> Some(Dec(21, 45000000)),
      natural |-> TRUE, has_stable_isotope |-> TRUE, discovery_year |-> Some(1735) ] ],
  \* case "gold" | "au" | 79:
  [ strs |-> {<<103,111,108,100>>, <<97,117>>}, int |-> 79,
    attrs |-> [ name |-> <<103,111,108,100>>, symbol |-> <<65,117>>, atomic_number |-> 79,
      atomic_mass |-> 1969700, electrons_per_shell |-> <<2,8,18,32,18,1>>,
      state |-> Some(<<115,111,108,105,100>>), group |-> Some(11), period |-> 6,
      melting_point_k |-> Some(13373300), boiling_point_k |-> Some(32430000),
      density |-> Some(Dec(19, 30000000)),
      natural |-> TRUE, has_stable_isotope |-> TRUE, discovery_year |-> None ] ],
  \* case "mercury" | "hg" | 80:
  [ strs |-> {<<109,101,114,99,117,114,121>>, <<104,103>>}, int |-> 80,
    attrs |-> [ name |-> <<109,101,114,99,117,114,121>>, symbol |-> <<72,103>>, atomic_number |-> 80,
      atomic_mass |-> 2005900, electrons_per_shell |-> <<2,8,18,32,18,2>>,
      state |-> Some(<<108,105,113,117,105,100>>), group |-> Some(12), period |-> 6,
      melting_point_k |-> Some(2343210), boiling_point_k |-> Some(6298800),
      density |-> Some(Dec(13, 53400000)),
      natural |-> TRUE, has_stable_isotope |-> TRUE, discovery_year |-> None ] ],
  \* case "thallium" | "tl" | 81:
  [ strs |-> {<<116,104,97,108,108,105,117,109>>, <<116,108>>}, int |-> 81,
    attrs |-> [ name |-> <<116,104,97,108,108,105,117,109>>, symbol |-> <<84,108>>, atomic_number |-> 81,
      atomic_mass |-> 2043800, electrons_per_shell |-> <<2,8,18,32,18,3>>,
      state |-> Some(<<115,111,108,105,100>>), group |-> Some(13), period |-> 6,
      melting_point_k |-> Some(5770000), boiling_point_k |-> Some(17460000),
      density |-> Some(Dec(11, 85000000)),
      natural |-> TRUE, has_stable_isotope |-> TRUE, discovery_year |-> Some(1861) ] ],
  \* case "lead" | "pb" | 82:
  [ strs |-> {<<108,101,97,100>>, <<112,98>>}, int |-> 82,
    attrs |-> [ name |-> <<108,101,97,100>>, symbol |-> <<80,98>>, atomic_number |-> 82,
      atomic_mass |-> 2072000, electrons_per_shell |-> <<2,8,18,32,18,4>>,
      state |-> Some(<<115,111,108,105,100>>), group |-> Some(14), period |-> 6,
      melting_point_k |-> Some(6006100), boiling_point_k |-> Some(20220000),
      density |-> Some(Dec(11, 34000000)),
      natural |-> TRUE, has_stable_isotope |-> TRUE, discovery_year |-> None ] ],
  \* case "bismuth" | "bi" | 83:
  [ strs |-> {<<98,105,115,109,117,116,104>>, <<98,105>>}, int |-> 83,
    attrs |-> [ name |-> <<98,105,115,109,117,116,104>>, symbol |-> <<66,105>>, atomic_number |-> 83,
      atomic_mass |-> 2089800, electrons_per_shell |-> <<2,8,18,32,18,5>>,
      state |-> Some(<<115,111,108,105,100>>), group |-> Some(15), period |-> 6,
      melting_point_k |-> Some(5447000), boiling_point_k |-> Some(18370000),
      density |-> Some(Dec(9, 78000000)),
      natural |-> TRUE, has_stable_isotope |-> FALSE, discovery_year |-> Some(1753) ] ],
  \* case "polonium" | "po" | 84:
  [ strs |-> {<<112,111,108,111,110,105,117,109>>, <<112,111>>}, int |-> 84,
    attrs |-> [ name |-> <<112,111,108,111,110,105,117,109>>, symbol |-> <<80,111>>, atomic_number |-> 84,
      atomic_mass |-> 2090000, electrons_per_shell |-> <<2,8,18,32,18,6>>,
      state |-> Some(<<115,111,108,105,100>>), group |-> Some(16), period |-> 6,
      melting_point_k |-> Some(5270000), boiling_point_k |-> Some(12350000),
      density |-> Some(Dec(9, 19600000)),
      natural |-> TRUE, has_stable_isotope |-> FALSE, discovery_year |-> Some(1898) ] ],
  \* case "astatine" | "at" | 85:
  [ strs |-> {<<97,115,116,97,116,105,110,101>>, <<97,116>>}, int |-> 85,
    attrs |-> [ name |-> <<97,115,116,97,116,105,110,101>>, symbol |-> <<65,116>>, atomic_number |-> 85,
      atomic_mass |-> 2100000, electrons_per_shell |-> <<2,8,18,32,18,7>>,
      state |-> None, group |-> Some(17), period |-> 6,
      melting_point_k |-> None, boiling_point_k |-> None,
      density |-> None,
      natural |-> TRUE, has_stable_isotope |-> FALSE, discovery_year |-> Some(1940) ] ],
  \* case "radon" | "rn" | 86:
  [ strs |-> {<<114,97,100,111,110>>, <<114,110>>}, int |-> 86,
    attrs |-> [ name |-> <<114,97,100,111,110>>, symbol |-> <<82,110>>, atomic_number |-> 86,
      atomic_mass |-> 2220000, electrons_per_shell |-> <<2,8,18,32,18,8>>,
      state |-> Some(<<103,97,115>>), group |-> Some(18), period |-> 6,
      melting_point_k |-> Some(2020000), boiling_point_k |-> Some(2115000),
      density |-> Some(Dec(0, 973000)),
      natural |-> TRUE, has_stable_isotope |-> FALSE, discovery_year |-> Some(1899) ] ],
  \* case "francium" | "fr" | 87:
  [ strs |-> {<<102,114,97,110,99,105,117,109>>, <<102,114>>}, int |-> 87,
    attrs |-> [ name |-> <<102,114,97,110,99,105,117,109>>, symbol |-> <<70,114>>, atomic_number |-> 87,
      atomic_mass |-> 2230000, electrons_per_shell |-> <<2,8,18,32,18,8,1>>,
      state |-> Some(<<115,111,108,105,100>>), group |-> Some(1), period |-> 7,
      melting_point_k |-> Some(3000000), boiling_point_k |-> Some(9500000),
      density |-> None,
      natural |-> TRUE, has_stable_isotope |-> FALSE, discovery_year |-> Some(1939) ] ],
  \* case "radium" | "ra" | 88:
  [ strs |-> {<<114,97,100,105,117,109>>, <<114,97>>}, int |-> 88,
    attrs |-> [ name |-> <<114,97,100,105,117,109>>, symbol |-> <<82,97>>, atomic_number |-> 88,
      atomic_mass |-> 2260000, electrons_per_shell |-> <<2,8,18,32,18,8,2>>,
      state |-> Some(<<115,111,108,105,100>>), group |-> Some(2), period |-> 7,
      melting_point_k |-> Some(9730000), boiling_point_k |-> Some(20100000),
      density |-> Some(Dec(5, 50000000)),
      natural |-> TRUE, has_stable_isotope |-> FALSE, discovery_year |-> Some(1898) ] ],
  \* case "actinium" | "ac" | 89:
  [ strs |-> {<<97,99,116,105,110,105,117,109>>, <<97,99>>}, int |-> 89,
    attrs |-> [ name |-> <<97,99,116,105,110,105,117,109>>, symbol |-> <<65,99>>, atomic_number |-> 89,
      atomic_mass |-> 2270000, electrons_per_shell |-> <<2,8,18,32,18,9,2>>,
      state |-> Some(<<115,111,108,105,100>>), group |-> None, period |-> 7,
      melting_point_k |-> Some(13230000), boiling_point_k |-> Some(34730000),
      density |-> Some(Dec(10, 0)),
      natural |-> TRUE, has_stable_isotope |-> FALSE, discovery_year |-> Some(1902) ] ],
  \* case "thorium" | "th" | 90:
  [ strs |-> {<<116,104,111,114,105,117,109>>, <<116,104>>}, int |-> 90,
    attrs |-> [ name |-> <<116,104,111,114,105,117,109>>, symbol |-> <<84,104>>, atomic_number |-> 90,
      atomic_mass |-> 2320400, electrons_per_shell |-> <<2,8,18,32,18,10,2>>,
      state |-> Some(<<115,111,108,105,100>>), group |-> None, period |-> 7,
      melting_point_k |-> Some(20230000), boiling_point_k |-> Some(50610000),
      density |-> Some(Dec(11, 70000000)),
      natural |-> TRUE, has_stable_isotope |-> FALSE, discovery_year |-> Some(1829) ] ],
  \* case "protactinium" | "pa" | 91:
  [ strs |-> {<<112,114,111,116,97,99,116,105,110,105,117,109>>, <<112,97>>}, int |-> 91,
    attrs |-> [ name |-> <<112,114,111,116,97,99,116,105,110,105,117,109>>, symbol |-> <<80,97>>, atomic_number |-> 91,
      atomic_mass |-> 2310400, electrons_per_shell |-> <<2,8,18,32,20,9,2>>,
      state |-> Some(<<115,111,108,105,100>>), group |-> None, period |-> 7,
      melting_point_k |-> Some(18410000), boiling_point_k |-> Some(43000000),
      density |-> Some(Dec(15, 37000000)),
      natural |-> TRUE, has_stable_isotope |-> FALSE, discovery_year |-> Some(1913) ] ],
  \* case "uranium" | "u" | 92:
  [ strs |-> {<<117,114,97,110,105,117,109>>, <<117>>}, int |-> 92,
    attrs |-> [ name |-> <<117,114,97,110,105,117,109>>, symbol |-> <<85>>, atomic_number |-> 92,
      atomic_mass |-> 2380300, electrons_per_shell |-> <<2,8,18,32,21,9,2>>,
      state |-> Some(<<115,111,108,105,100>>), group |-> None, period |-> 7,
      melting_point_k |-> Some(14053000), boiling_point_k |-> Some(44040000),
      density |-> Some(Dec(19, 10000000)),
      natural |-> TRUE, has_stable_isotope |-> FALSE, discovery_year |-> Some(1789) ] ],
  \* case "neptunium" | "np" | 93:
  [ strs |-> {<<110,101,112,116,117,110,105,117,109>>, <<110,112>>}, int |-> 93,
    attrs |-> [ name |-> <<110,101,112,116,117,110,105,117,109>>, symbol |-> <<78,112>>, atomic_number |-> 93,
      atomic_mass |-> 2370000, electrons_per_shell |-> <<2,8,18,32,22,9,2>>,
      state |-> Some(<<115,111,108,105,100>>), group |-> None, period |-> 7,
      melting_point_k |-> Some(9120000), boiling_point_k |-> None,
      density |-> Some(Dec(20, 45000000)),
      natural |-> TRUE, has_stable_isotope |-> FALSE, discovery_year |-> Some(1940) ] ],
  \* case "plutonium" | "pu" | 94:
  [ strs |-> {<<112,108,117,116,111,110,105,117,109>>, <<112,117>>}, int |-> 94,
    attrs |-> [ name |-> <<112,108,117,116,111,110,105,117,109>>, symbol |-> <<80,117>>, atomic_number |-> 94,
      atomic_mass |-> 2440000, electrons_per_shell |-> <<2,8,18,32,24,8,2>>,
      state |-> Some(<<115,111,108,105,100>>), group |-> None, period |-> 7,
      melting_point_k |-> Some(9125000), boiling_point_k |-> Some(35050000),
      density |-> Some(Dec(19, 85000000)),
      natural |-> FALSE, has_stable_isotope |-> FALSE, discovery_year |-> Some(1940) ] ],
  \* case "americium" | "am" | 95:
  [ strs |-> {<<97,109,101,114,105,99,105,117,109>>, <<97,109>>}, int |-> 95,
    attrs |-> [ name |-> <<97,109,101,114,105,99,105,117,109>>, symbol |-> <<65,109>>, atomic_number |-> 95,
      atomic_mass |-> 2430000, electrons_per_shell |-> <<2,8,18,32,25,8,2>>,
      state |-> Some(<<115,111,108,105,100>>), group |-> None, period |-> 7,
      melting_point_k |-> Some(14490000), boiling_point_k |-> None,
      density |-> Some(Dec(12, 0)),
      natural |-> FALSE, has_stable_isotope |-> FALSE, discovery_year |-> Some(1944) ] ],
  \* case "curium" | "cm" | 96:
  [ strs |-> {<<99,117,114,105,117,109>>, <<99,109>>}, int |-> 96,
    attrs |-> [ name |-> <<99,117,114,105,117,109>>, symbol |-> <<67,109>>, atomic_number |-> 96,
      atomic_mass |-> 2470000, electrons_per_shell |-> <<2,8,18,32,25,9,2>>,
      state |-> Some(<<115,111,108,105,100>>), group |-> None, period |-> 7,
      melting_point_k |-> Some(16130000), boiling_point_k |-> Some(33830000),
      density |-> Some(Dec(13, 51000000)),
      natural |-> FALSE, has_stable_isotope |-> FALSE, discovery_year |-> Some(1944) ] ],
  \* case "berkelium" | "bk" | 97:
  [ strs |-> {<<98,101,114,107,101,108,105,117,109>>, <<98,107>>}, int |-> 97,
    attrs |-> [ name |-> <<98,101,114,107,101,108,105,117,109>>, symbol |-> <<66,107>>, atomic_number |-> 97,
      atomic_mass |-> 2470000, electrons_per_shell |-> <<2,8,18,32,27,8,2>>,
      state |-> Some(<<115,111,108,105,100>>), group |-> None, period |-> 7,
      melting_point_k |-> Some(12590000), boiling_point_k |-> None,
      density |-> Some(Dec(14, 78000000)),
      natural |-> FALSE, has_stable_isotope |-> FALSE, discovery_year |-> Some(1949) ] ],
  \* case "californium" | "cf" | 98:
  [ strs |-> {<<99,97,108,105,102,111,114,110,105,117,109>>, <<99,102>>}, int |-> 98,
    attrs |-> [ name |-> <<99,97,108,105,102,111,114,110,105,117,109>>, symbol |-> <<67,102>>, atomic_number |-> 98,
      atomic_mass |-> 2510000, electrons_per_shell |-> <<2,8,18,32,28,8,2>>,
      state |-> Some(<<115,111,108,105,100>>), group |-> None, period |-> 7,
      melting_point_k |-> Some(11730000), boiling_point_k |-> None,
      density |-> Some(Dec(15, 10000000)),
      natural |-> FALSE, has_stable_isotope |-> FALSE, discovery_year |-> Some(1950) ] ],
  \* case "einsteinium" | "es" | 99:
  [ strs |-> {<<101,105,110,115,116,101,105,110,105,117,109>>, <<101,115>>}, int |-> 99,
    attrs |-> [ name |-> <<101,105,110,115,116,101,105,110,105,117,109>>, symbol |-> <<69,115>>, atomic_number |-> 99,
      atomic_mass |-> 2520000, electrons_per_shell |-> <<2,8,18,32,29,8,2>>,
      state |-> Some(<<115,111,108,105,100>>), group |-> None, period |-> 7,
      melting_point_k |-> Some(11330000), boiling_point_k |-> None,
      density |-> Some(Dec(8, 84000000)),
      natural |-> FALSE, has_stable_isotope |-> FALSE, discovery_year |-> Some(1952) ] ],
  \* case "fermium" | "fm" | 100:
  [ strs |-> {<<102,101,114,109,105,117,109>>, <<102,109>>}, int |-> 100,
    attrs |-> [ name |-> <<102,101,114,109,105,117,109>>, symbol |-> <<70,109>>, atomic_number |-> 100,
      atomic_mass |-> 2570000, electrons_per_shell |-> <<2,8,18,32,30,8,2>>,
      state |-> Some(<<115,111,108,105,100>>), group |-> None, period |-> 7,
      melting_point_k |-> Some(18000000), boiling_point_k |-> None,
      density |-> None,
      natural |-> FALSE, has_stable_isotope |-> FALSE, discovery_year |-> Some(1952) ] ],
  \* case "mendelevium" | "md" | 101:
  [ strs |-> {<<109,101,110,100,101,108,101,118,105,117,109>>, <<109,100>>}, int |-> 101,
    attrs |-> [ name |-> <<109,101,110,100,101,108,101,118,105,117,109>>, symbol |-> <<77,100>>, atomic_number |-> 101,
      atomic_mass |-> 2580000, electrons_per_shell |-> <<2,8,18,32,31,8,2>>,
      state |-> Some(<<115,111,108,105,100>>), group |-> None, period |-> 7,
      melting_point_k |-> Some(11000000), boiling_point_k |-> None,
      density |-> None,
      natural |-> FALSE, has_stable_isotope |-> FALSE, discovery_year |-> Some(1955) ] ],
  \* case "nobelium" | "no" | 102:
  [ strs |-> {<<110,111,98,101,108,105,117,109>>, <<110,111>>}, int |-> 102,
    attrs |-> [ name |-> <<110,111,98,101,108,105,117,109>>, symbol |-> <<78,111>>, atomic_number |-> 102,
      atomic_mass |-> 2590000, electrons_per_shell |-> <<2,8,18,32,32,8,2>>,
      state |-> Some(<<115,111,108,105,100>>), group |-> None, period |-> 7,
      melting_point_k |-> Some(11000000), boiling_point_k |-> None,
      density |-> None,
      natural |-> FALSE, has_stable_isotope |-> FALSE, discovery_year |-> Some(1966) ] ],
  \* case "lawrencium" | "lr" | 103:
  [ strs |-> {<<108,97,119,114,101,110,99,105,117,109>>, <<108,114>>}, int |-> 103,
    attrs |-> [ name |-> <<108,97,119,114,101,110,99,105,117,109>>, symbol |-> <<76,114>>, atomic_number |-> 103,
      atomic_mass |-> 2660000, electrons_per_shell |-> <<2,8,18,32,32,8,3>>,
      state |-> Some(<<115,111,108,105,100>>), group |-> Some(3), period |-> 7,
      melting_point_k |-> Some(19000000), boiling_point_k |-> None,
      density |-> None,
      natural |-> FALSE, has_stable_isotope |-> FALSE, discovery_year |-> Some(1961) ] ],
  \* case "rutherfordium" | "rf" | 104:
  [ strs |-> {<<114,117,116,104,101,114,102,111,114,100,105,117,109>>, <<114,102>>}, int |-> 104,
    attrs |-> [ name |-> <<114,117,116,104,101,114,102,111,114,100,105,117,109>>, symbol |-> <<82,102>>, atomic_number |-> 104,
      atomic_mass |-> 2670000, electrons_per_shell |-> <<2,8,18,32,32,10,2>>,
      state |-> Some(<<115,111,108,105,100>>), group |-> Some(4), period |-> 7,
      melting_point_k |-> None, boiling_point_k |-> None,
      density |-> None,
      natural |-> FALSE, has_stable_isotope |-> FALSE, discovery_year |-> Some(1964) ] ],
  \* case "dubnium" | "db" | 105:
  [ strs |-> {<<100,117,98,110,105,117,109>>, <<100,98>>}, int |-> 105,
    attrs |-> [ name |-> <<100,117,98,110,105,117,109>>, symbol |-> <<68,98>>, atomic_number |-> 105,
      atomic_mass |-> 2680000, electrons_per_shell |-> <<2,8,18,32,32,11,2>>,
      state |-> Some(<<115,111,108,105,100>>), group |-> Some(5), period |-> 7,
      melting_point_k |-> None, boiling_point_k |-> None,
      density |-> None,
      natural |-> FALSE, has_stable_isotope |-> FALSE, discovery_year |-> Some(1970) ] ],
  \* case "seaborgium" | "sg" | 106:
  [ strs |-> {<<115,101,97,98,111,114,103,105,117,109>>, <<115,103>>}, int |-> 106,
    attrs |-> [ name |-> <<115,101,97,98,111,114,103,105,117,109>>, symbol |-> <<83,103>>, atomic_number |-> 106,
      atomic_mass |-> 2690000, electrons_per_shell |-> <<2,8,18,32,32,12,2>>,
      state |-> Some(<<115,111,108,105,100>>), group |-> Some(6), period |-> 7,
      melting_point_k |-> None, boiling_point_k |-> None,
      density |-> None,
      natural |-> FALSE, has_stable_isotope |-> FALSE, discovery_year |-> Some(1974) ] ],
  \* case "bohrium" | "bh" | 107:
  [ strs |-> {<<98,111,104,114,105,117,109>>, <<98,104>>}, int |-> 107,
    attrs |-> [ name |-> <<98,111,104,114,105,117,109>>, symbol |-> <<66,104>>, atomic_number |-> 107,
      atomic_mass |-> 2700000, electrons_per_shell |-> <<2,8,18,32,32,13,2>>,
      state |-> Some(<<115,111,108,105,100>>), group |-> Some(7), period |-> 7,
      melting_point_k |-> None, boiling_point_k |-> None,
      density |-> None,
      natural |-> FALSE, has_stable_isotope |-> FALSE, discovery_year |-> Some(1981) ] ],
  \* case "hassium" | "hs" | 108:
  [ strs |-> {<<104,97,115,115,105,117,109>>, <<104,115>>}, int |-> 108,
    attrs |-> [ name |-> <<104,97,115,115,105,117,109>>, symbol |-> <<72,115>>, atomic_number |-> 108,
      atomic_mass |-> 2690000, electrons_per_shell |-> <<2,8,18,32,32,14,2>>,
      state |-> Some(<<115,111,108,105,100>>), group |-> Some(8), period |-> 7,
      melting_point_k |-> None, boiling_point_k |-> None,
      density |-> None,
      natural |-> FALSE, has_stable_isotope |-> FALSE, discovery_year |-> Some(1984) ] ],
  \* case "meitnerium" | "mt" | 109:
  [ strs |-> {<<109,101,105,116,110,101,114,105,117,109>>, <<109,116>>}, int |-> 109,
    attrs |-> [ name |-> <<109,101,105,116,110,101,114,105,117,109>>, symbol |-> <<77,116>>, atomic_number |-> 109,
      atomic_mass |-> 2780000, electrons_per_shell |-> <<2,8,18,32,32,15,2>>,
      state |-> Some(<<115,111,108,105,100>>), group |-> Some(9), period |-> 7,
      melting_point_k |-> None, boiling_point_k |-> None,
      density |-> None,
      natural |-> FALSE, has_stable_isotope |-> FALSE, discovery_year |-> Some(1982) ] ],
  \* case "darmstadtium" | "ds" | 110:
  [ strs |-> {<<100,97,114,109,115,116,97,100,116,105,117,109>>, <<100,115>>}, int |-> 110,
    attrs |-> [ name |-> <<100,97,114,109,115,116,97,100,116,105,117,109>>, symbol |-> <<68,115>>, atomic_number |-> 110,
      atomic_mass |-> 2810000, electrons_per_shell |-> <<2,8,18,32,32,16,2>>,
      state |-> Some(<<115,111,108,105,100>>), group |-> Some(10), period |-> 7,
      melting_point_k |-> None, boiling_point_k |-> None,
      density |-> None,
      natural |-> FALSE, has_stable_isotope |-> FALSE, discovery_year |-> Some(1994) ] ],
  \* case "roentgenium" | "rg" | 111:
  [ strs |-> {<<114,111,101,110,116,103,101,110,105,117,109>>, <<114,103>>}, int |-> 111,
    attrs |-> [ name |-> <<114,111,101,110,116,103,101,110,105,117,109>>, symbol |-> <<82,103>>, atomic_number |-> 111,
      atomic_mass |-> 2820000, electrons_per_shell |-> <<2,8,18,32,32,17,2>>,
      state |-> Some(<<115,111,108,105,100>>), group |-> Some(11), period |-> 7,
      melting_point_k |-> None, boiling_point_k |-> None,
      density |-> None,
      natural |-> FALSE, has_stable_isotope |-> FALSE, discovery_year |-> Some(1994) ] ],
  \* case "copernicium" | "cn" | 112:
  [ strs |-> {<<99,111,112,101,114,110,105,99,105,117,109>>, <<99,110>>}, int |-> 112,
    attrs |-> [ name |-> <<99,111,112,101,114,110,105,99,105,117,109>>, symbol |-> <<67,110>>, atomic_number |-> 112,
      atomic_mass |-> 2850000, electrons_per_shell |-> <<2,8,18,32,32,18,2>>,
      state |-> None, group |-> Some(12), period |-> 7,
      melting_point_k |-> None, boiling_point_k |-> None,
      density |-> None,
      natural |-> FALSE, has_stable_isotope |-> FALSE, discovery_year |-> Some(1996) ] ],
  \* case "nihonium" | "nh" | 113:
  [ strs |-> {<<110,105,104,111,110,105,117,109>>, <<110,104>>}, int |-> 113,
    attrs |-> [ name |-> <<110,105,104,111,110,105,117,109>>, symbol |-> <<78,104>>, atomic_number |-> 113,
      atomic_mass |-> 2860000, electrons_per_shell |-> <<2,8,18,32,32,18,3>>,
      state |-> Some(<<115,111,108,105,100>>), group |-> Some(13), period |-> 7,
      melting_point_k |-> None, boiling_point_k |-> None,
      density |-> None,
      natural |-> FALSE, has_stable_isotope |-> FALSE, discovery_year |-> Some(2004) ] ],
  \* case "flerovium" | "fl" | 114:
  [ strs |-> {<<102,108,101,114,111,118,105,117,109>>, <<102,108>>}, int |-> 114,
    attrs |-> [ name |-> <<102,108,101,114,111,118,105,117,109>>, symbol |-> <<70,108>>, atomic_number |-> 114,
      atomic_mass |-> 2890000, electrons_per_shell |-> <<2,8,18,32,32,18,4>>,
      state |-> None, group |-> Some(14), period |-> 7,
      melting_point_k |-> None, boiling_point_k |-> None,
      density |-> None,
      natural |-> FALSE, has_stable_isotope |-> FALSE, discovery_year |-> Some(1998) ] ],
  \* case "moscovium" | "mc" | 115:
  [ strs |-> {<<109,111,115,99,111,118,105,117,109>>, <<109,99>>}, int |-> 115,
    attrs |-> [ name |-> <<109,111,115,99,111,118,105,117,109>>, symbol |-> <<77,99>>, atomic_number |-> 115,
      atomic_mass |-> 2900000, electrons_per_shell |-> <<2,8,18,32,32,18,5>>,
      state |-> Some(<<115,111,108,105,100>>), group |-> Some(15), period |-> 7,
      melting_point_k |-> None, boiling_point_k |-> None,
      density |-> None,
      natural |-> FALSE, has_stable_isotope |-> FALSE, discovery_year |-> Some(2003) ] ],
  \* case "livermorium" | "lv" | 116:
  [ strs |-> {<<108,105,118,101,114,109,111,114,105,117,109>>, <<108,118>>}, int |-> 116,
    attrs |-> [ name |-> <<108,105,118,101,114,109,111,114,105,117,109>>, symbol |-> <<76,118>>, atomic_number |-> 116,
      atomic_mass |-> 2930000, electrons_per_shell |-> <<2,8,18,32,32,18,6>>,
      state |-> Some(<<115,111,108,105,100>>), group |-> Some(16), period |-> 7,
      melting_point_k |-> None, boiling_point_k |-> None,
      density |-> None,
      natural |-> FALSE, has_stable_isotope |-> FALSE, discovery_year |-> Some(2000) ] ],
  \* case "tennessine" | "ts" | 117:
  [ strs |-> {<<116,101,110,110,101,115,115,105,110,101>>, <<116,115>>}, int |-> 117,
    attrs |-> [ name |-> <<116,101,110,110,101,115,115,105,110,101>>, symbol |-> <<84,115>>, atomic_number |-> 117,
      atomic_mass |-> 2940000, electrons_per_shell |-> <<2,8,18,32,32,18,7>>,
      state |-> Some(<<115,111,108,105,100>>), group |-> Some(17), period |-> 7,
      melting_point_k |-> None, boiling_point_k |-> None,
      density |-> None,
      natural |-> FALSE, has_stable_isotope |-> FALSE, discovery_year |-> Some(2009) ] ],
  \* case "oganesson" | "og" | 118:
  [ strs |-> {<<111,103,97,110,101,115,115,111,110>>, <<111,103>>}, int |-> 118,
    attrs |-> [ name |-> <<111,103,97,110,101,115,115,111,110>>, symbol |-> <<79,103>>, atomic_number |-> 118,
      atomic_mass |-> 2940000, electrons_per_shell |-> <<2,8,18,32,32,18,8>>,
      state |-> Some(<<115,111,108,105,100>>), group |-> Some(18), period |-> 7,
      melting_point_k |-> None, boiling_point_k |-> None,
      density |-> None,
      natural |-> FALSE, has_stable_isotope |-> FALSE, discovery_year |-> Some(2002) ] ]
  >>

\* The outcome of a call: a returned value or a raised exception.
Return(v) == [raised |-> "", value |-> v]
Raise(e) == [raised |-> e]

\* A call made on the table: the method, its arguments and its outcome.
Call(op, args, out) == [op |-> op, args |-> args, out |-> out]
NoCall == Call("", <<>>, Return(None))

\* Arguments of Element(info): a str, an int, or a value of another type.
PyStr(s) == [type |-> "str", val |-> s]
PyInt(n) == [type |-> "int", val |-> n]
PyFloat(n) == [type |-> "float", val |-> n]
PyNone == [type |-> "NoneType", val |-> 0]
PyElement(e) == [type |-> "Element", val |-> e]

\* Element.__init__ with natural = True in the case of plutonium (94).
ElementNaturalPlutonium(info) ==
  IF info.type \notin {"str", "int"} THEN Raise("TypeError")
  ELSE
    LET key == IF info.type = "str" THEN lower(info.val) ELSE info.val
        hits == {i \in 1..Len(DATA) :
                   IF info.type = "str" THEN key \in DATA[i].strs
                                        ELSE key = DATA[i].int}
        first == CHOOSE i \in hits : \A j \in hits : i <= j
    IN IF hits = {} THEN Raise("ElementDoesNotExist")
       ELSE Return([DATA[first].attrs EXCEPT
                      !.natural = (@ \/ DATA[first].int = 94)])

\* Element.__init__ with the atomic_number of the case before copied into
\* the case of boron (5).
ElementNumberSlip(info) ==
  IF info.type \notin {"str", "int"} THEN Raise("TypeError")
  ELSE
    LET key == IF info.type = "str" THEN lower(info.val) ELSE info.val
        hits == {i \in 1..Len(DATA) :
                   IF info.type = "str" THEN key \in DATA[i].strs
                                        ELSE key = DATA[i].int}
        first == CHOOSE i \in hits : \A j \in hits : i <= j
    IN IF hits = {} THEN Raise("ElementDoesNotExist")
       ELSE Return([DATA[first].attrs EXCEPT
                      !.atomic_number = IF @ = 5 THEN 4 ELSE @])

\* Element.__init__: the type check, str.lower(), then the first case of
\* the match statement with a pattern equal to info.
Element(info) ==
  IF info.type \notin {"str", "int"} THEN Raise("TypeError")
  ELSE
    LET key == IF info.type = "str" THEN lower(info.val) ELSE info.val
        hits == {i \in 1..Len(DATA) :
                   IF info.type = "str" THEN key \in DATA[i].strs
                                        ELSE key = DATA[i].int}
    IN IF hits = {} THEN Raise("ElementDoesNotExist")
       ELSE Return(DATA[CHOOSE i \in hits : \A j \in hits : i <= j].attrs)

\* data.DATA of the later variant of the package: one record for each
\* element, with the values of the match statement.
data_DATA == [i \in 1..Len(DATA) |-> DATA[i].attrs]

\* Element.__init__ of the later variant comparing an int or a float with
\* the atomic numbers, without the check of the type.
ElementFromData_no_type_check(info) ==
  LET key == IF info.type = "str" THEN lower(info.val) ELSE info.val
      hits == {i \in 1..Len(data_DATA) :
                 IF info.type = "str"
                 THEN key \in {data_DATA[i].name, lower(data_DATA[i].symbol)}
                 ELSE info.type \in {"int", "float"}
                        /\ key = data_DATA[i].atomic_number}
  IN IF hits = {} THEN Raise("ElementDoesNotExist")
     ELSE Return(data_DATA[CHOOSE i \in hits : \A j \in hits : i <= j])

\* Element.__init__ of the later variant: the type check, str.lower(), then
\* the first record of DATA with info in (name, symbol.lower(),
\* atomic_number); for ... else raises ElementDoesNotExist.
ElementFromData(info) ==
  IF info.type \notin {"str", "int"} THEN Raise("TypeError")
  ELSE
    LET key == IF info.type = "str" THEN lower(info.val) ELSE info.val
        hits == {i \in 1..Len(data_DATA) :
                   IF info.type = "str"
                   THEN key \in {data_DATA[i].name,
                                 lower(data_DATA[i].symbol)}
                   ELSE key = data_DATA[i].atomic_number}
    IN IF hits = {} THEN Raise("ElementDoesNotExist")
       ELSE Return(data_DATA[CHOOSE i \in hits : \A j \in hits : i <= j])

\* Element._validate_object_to_compare: the exception raised, "" for none.
_validate_object_to_compare(obj) ==
  IF obj.type # "Element" THEN "TypeError" ELSE ""

\* Element.__eq__ raising for a value that is no Element.
__eq___raising(self, element) ==
  IF element.type # "Element" THEN Raise("TypeError")
  ELSE Return(self.atomic_number = element.val.atomic_number)

\* Element.__eq__
__eq__(self, element) ==
  IF element.type # "Element" THEN Return(FALSE)
  ELSE Return(self.atomic_number = element.val.atomic_number)

\* Element.__gt__
__gt__(self, element) ==
  IF _validate_object_to_compare(element) # ""
  THEN Raise(_validate_object_to_compare(element))
  ELSE Return(self.atomic_number > element.val.atomic_number)

\* Element.__ge__ comparing with > .
__ge___strict(self, element) ==
  IF _validate_object_to_compare(element) # ""
  THEN Raise(_validate_object_to_compare(element))
  ELSE Return(self.atomic_number > element.val.atomic_number)

\* Element.__ge__
__ge__(self, element) ==
  IF _validate_object_to_compare(element) # ""
  THEN Raise(_validate_object_to_compare(element))
  ELSE Return(self.atomic_number >= element.val.atomic_number)

\* Element.__lt__
__lt__(self, element) ==
  IF _validate_object_to_compare(element) # ""
  THEN Raise(_validate_object_to_compare(element))
  ELSE Return(self.atomic_number < element.val.atomic_number)

\* Element.__le__
__le__(self, element) ==
  IF _validate_object_to_compare(element) # ""
  THEN Raise(_validate_object_to_compare(element))
  ELSE Return(self.atomic_number <= element.val.atomic_number)

\* object.__ne__: the inverse of __eq__.
__ne__(self, element) ==
  LET eq == __eq__(self, element) IN
  IF eq.raised # "" THEN eq ELSE Return(~eq.value)

\* The method of Element for an operator.
method(op, self, element) ==
  CASE op = "==" -> __eq__(self, element)
    [] op = "!=" -> __ne__(self, element)
    [] op = "<"  -> __lt__(self, element)
    [] op = "<=" -> __le__(self, element)
    [] op = ">"  -> __gt__(self, element)
    [] op = ">=" -> __ge__(self, element)

\* The operator with its operands swapped.
reflected(op) ==
  CASE op = "<" -> ">" [] op = "<=" -> ">=" [] op = ">" -> "<"
    [] op = ">=" -> "<=" [] OTHER -> op

\* a op b, one of a and b at least being an Element: the method of a when a
\* is an Element; else the str, int, float or None on the left returns
\* NotImplemented and the reflected method of b is called.
compare(op, a, b) ==
  IF a.type = "Element" THEN method(op, a.val, b)
  ELSE method(reflected(op), b.val, a)

(***************************************************************************)
(* PeriodicTable.                                                          *)
(***************************************************************************)
VARIABLES
  pc,                \* "constructing", "ready" or "failed" (__init__ raised)
  atomic_number,     \* loop variable of __init__
  attrs,             \* attributes set with setattr(self, ...)
  _elements,
  _elements_with_stable_isotope,
  _elements_without_stable_isotope,
  _alkali_metals,
  _alkaline_earth_metals,
  _lanthanides,
  _actinides,
  _halogens,
  _noble_gases,
  _natural_elements,
  _synthetic_elements,
  last               \* the last call made on the table and its outcome

views == <<_elements_with_stable_isotope, _elements_without_stable_isotope,
           _alkali_metals, _alkaline_earth_metals, _lanthanides, _actinides,
           _halogens, _noble_gases, _natural_elements, _synthetic_elements>>
table == <<pc, atomic_number, attrs, _elements, views>>
vars == <<table, last>>

\* setattr(self, key, value): the attribute is created or overwritten.
setattr(dict, key, value) ==
  {a \in dict : a.key # key} \cup {[key |-> key, value |-> value]}

\* The group chain without the exclusion of hydrogen.
GroupViewWithHydrogen(element) ==
  IF element.group = Some(1) THEN "alkali_metals"
  ELSE IF element.group = Some(2) THEN "alkaline_earth_metals"
  ELSE IF element.group = Some(17) THEN "halogens"
  ELSE IF element.group = Some(18) THEN "noble_gases"
  ELSE ""

\* The if/elif chain on the group (lines 41-48): the view the element is
\* appended to, "" for none.
GroupView(element) ==
  IF element.group = Some(1) /\ element.atomic_number # 1
    THEN "alkali_metals"
  ELSE IF element.group = Some(2) THEN "alkaline_earth_metals"
  ELSE IF element.group = Some(17) THEN "halogens"
  ELSE IF element.group = Some(18) THEN "noble_gases"
  ELSE ""

\* The series chain with the lower bounds excluded (57 < ..., 89 < ...).
SeriesViewExclusive(element) ==
  IF 57 < element.atomic_number /\ element.atomic_number <= 71
    THEN "lanthanides"
  ELSE IF 89 < element.atomic_number /\ element.atomic_number <= 103
    THEN "actinides"
  ELSE ""

\* The if/elif chain on the atomic number (lines 50-53).
SeriesView(element) ==
  IF 57 <= element.atomic_number /\ element.atomic_number <= 71
    THEN "lanthanides"
  ELSE IF 89 <= element.atomic_number /\ element.atomic_number <= 103
    THEN "actinides"
  ELSE ""

\* The stability test made on the natural flag.
StabilityViewByNatural(element) ==
  IF element.natural THEN "elements_with_stable_isotope"
  ELSE "elements_without_stable_isotope"

\* The if/else on has_stable_isotope (lines 55-58).
StabilityView(element) ==
  IF element.has_stable_isotope THEN "elements_with_stable_isotope"
  ELSE "elements_without_stable_isotope"

\* The natural / synthetic classification of the registry.
NaturalView(element) ==
  IF element.natural THEN "natural_elements" ELSE "synthetic_elements"

\* list.append(element) when the element is classified into the view.
AppendIf(list, cond, element) == IF cond THEN Append(list, element) ELSE list

Init ==
  /\ pc = "constructing"
  /\ atomic_number = 1
  /\ attrs = {}
  /\ _elements = <<>>
  /\ _elements_with_stable_isotope = <<>>
  /\ _elements_without_stable_isotope = <<>>
  /\ _alkali_metals = <<>>
  /\ _alkaline_earth_metals = <<>>
  /\ _lanthanides = <<>>
  /\ _actinides = <<>>
  /\ _halogens = <<>>
  /\ _noble_gases = <<>>
  /\ _natural_elements = <<>>
  /\ _synthetic_elements = <<>>
  /\ last = NoCall

\* The loop over range(1, NUMBER_OF_ELEMENTS): the table is returned
\* without the last element.
ConstructReadyEarly ==
  /\ pc = "constructing"
  /\ LET res == Element(PyInt(atomic_number)) IN
       IF res.raised # ""
       THEN /\ pc' = "failed"
            /\ UNCHANGED <<atomic_number, attrs, _elements, views, last>>
       ELSE
         LET element == res.value IN
         /\ attrs' = setattr(setattr(setattr(attrs,
                        element.name, element),
                        lower(element.symbol), element),
                        title(element.symbol), element)
         /\ _elements' = Append(_elements, element)
         /\ _alkali_metals' = AppendIf(_alkali_metals,
                GroupView(element) = "alkali_metals", element)
         /\ _alkaline_earth_metals' = AppendIf(_alkaline_earth_metals,
                GroupView(element) = "alkaline_earth_metals", element)
         /\ _halogens' = AppendIf(_halogens,
                GroupView(element) = "halogens", element)
         /\ _noble_gases' = AppendIf(_noble_gases,
                GroupView(element) = "noble_gases", element)
         /\ _lanthanides' = AppendIf(_lanthanides,
                SeriesView(element) = "lanthanides", element)
         /\ _actinides' = AppendIf(_actinides,
                SeriesView(element) = "actinides", element)
         /\ _elements_with_stable_isotope' =
              AppendIf(_elements_with_stable_isotope,
                StabilityView(element) = "elements_with_stable_isotope",
                element)
         /\ _elements_without_stable_isotope' =
              AppendIf(_elements_without_stable_isotope,
                StabilityView(element) = "elements_without_stable_isotope",
                element)
         /\ _natural_elements' = AppendIf(_natural_elements,
                NaturalView(element) = "natural_elements", element)
         /\ _synthetic_elements' = AppendIf(_synthetic_elements,
                NaturalView(element) = "synthetic_elements", element)
         /\ IF atomic_number < NUMBER_OF_ELEMENTS - 1
            THEN atomic_number' = atomic_number + 1 /\ pc' = "constructing"
            ELSE atomic_number' = atomic_number /\ pc' = "ready"
         /\ UNCHANGED last

\* The loop with setattr(self, element.symbol.upper(), element).
ConstructUpperSymbol ==
  /\ pc = "constructing"
  /\ LET res == Element(PyInt(atomic_number)) IN
       IF res.raised # ""
       THEN /\ pc' = "failed"
            /\ UNCHANGED <<atomic_number, attrs, _elements, views, last>>
       ELSE
         LET element == res.value IN
         /\ attrs' = setattr(setattr(setattr(attrs,
                        element.name, element),
                        lower(element.symbol), element),
                        upper(element.symbol), element)
         /\ _elements' = Append(_elements, element)
         /\ _alkali_metals' = AppendIf(_alkali_metals,
                GroupView(element) = "alkali_metals", element)
         /\ _alkaline_earth_metals' = AppendIf(_alkaline_earth_metals,
                GroupView(element) = "alkaline_earth_metals", element)
         /\ _halogens' = AppendIf(_halogens,
                GroupView(element) = "halogens", element)
         /\ _noble_gases' = AppendIf(_noble_gases,
                GroupView(element) = "noble_gases", element)
         /\ _lanthanides' = AppendIf(_lanthanides,
                SeriesView(element) = "lanthanides", element)
         /\ _actinides' = AppendIf(_actinides,
                SeriesView(element) = "actinides", element)
         /\ _elements_with_stable_isotope' =
              AppendIf(_elements_with_stable_isotope,
                StabilityView(element) = "elements_with_stable_isotope",
                element)
         /\ _elements_without_stable_isotope' =
              AppendIf(_elements_without_stable_isotope,
                StabilityView(element) = "elements_without_stable_isotope",
                element)
         /\ _natural_elements' = AppendIf(_natural_elements,
                NaturalView(element) = "natural_elements", element)
         /\ _synthetic_elements' = AppendIf(_synthetic_elements,
                NaturalView(element) = "synthetic_elements", element)
         /\ IF atomic_number < NUMBER_OF_ELEMENTS
            THEN atomic_number' = atomic_number + 1 /\ pc' = "constructing"
            ELSE atomic_number' = atomic_number /\ pc' = "ready"
         /\ UNCHANGED last

\* One iteration of the loop of PeriodicTable.__init__.  An exception of
\* Element() leaves __init__, and no table is returned.
Construct ==
  /\ pc = "constructing"
  /\ LET res == Element(PyInt(atomic_number)) IN
       IF res.raised # ""
       THEN /\ pc' = "failed"
            /\ UNCHANGED <<atomic_number, attrs, _elements, views, last>>
       ELSE
         LET element == res.value IN
         /\ attrs' = setattr(setattr(setattr(attrs,
                        element.name, element),
                        lower(element.symbol), element),
                        title(element.symbol), element)
         /\ _elements' = Append(_elements, element)
         /\ _alkali_metals' = AppendIf(_alkali_metals,
                GroupView(element) = "alkali_metals", element)
         /\ _alkaline_earth_metals' = AppendIf(_alkaline_earth_metals,
                GroupView(element) = "alkaline_earth_metals", element)
         /\ _halogens' = AppendIf(_halogens,
                GroupView(element) = "halogens", element)
         /\ _noble_gases' = AppendIf(_noble_gases,
                GroupView(element) = "noble_gases", element)
         /\ _lanthanides' = AppendIf(_lanthanides,
                SeriesView(element) = "lanthanides", element)
         /\ _actinides' = AppendIf(_actinides,
                SeriesView(element) = "actinides", element)
         /\ _elements_with_stable_isotope' =
              AppendIf(_elements_with_stable_isotope,
                StabilityView(element) = "elements_with_stable_isotope",
                element)
         /\ _elements_without_stable_isotope' =
              AppendIf(_elements_without_stable_isotope,
                StabilityView(element) = "elements_without_stable_isotope",
                element)
         /\ _natural_elements' = AppendIf(_natural_elements,
                NaturalView(element) = "natural_elements", element)
         /\ _synthetic_elements' = AppendIf(_synthetic_elements,
                NaturalView(element) = "synthetic_elements", element)
         /\ IF atomic_number < NUMBER_OF_ELEMENTS
            THEN atomic_number' = atomic_number + 1 /\ pc' = "constructing"
            ELSE atomic_number' = atomic_number /\ pc' = "ready"
         /\ UNCHANGED last

\* for element in self (__iter__ yields the elements of _elements in
\* order): the first element for which the test holds, by its index.
FirstIndex(hits) == CHOOSE i \in hits : \A j \in hits : i <= j

\* get_element_by_name falling off the loop without raising.
get_element_by_name_no_raise(name) ==
  LET name1 == lower(name)
      hits == {i \in 1..Len(_elements) : _elements[i].name = name1}
  IN IF hits # {} THEN Return(_elements[FirstIndex(hits)])
     ELSE Return(None)

\* PeriodicTable.get_element_by_name
get_element_by_name(name) ==
  LET name1 == lower(name)
      hits == {i \in 1..Len(_elements) : _elements[i].name = name1}
  IN IF hits # {} THEN Return(_elements[FirstIndex(hits)])
     ELSE Raise("ElementDoesNotExist")

\* get_element_by_symbol normalising with upper() instead of title().
get_element_by_symbol_upper(symbol) ==
  LET symbol1 == upper(symbol)
      hits == {i \in 1..Len(_elements) : _elements[i].symbol = symbol1}
  IN IF hits # {} THEN Return(_elements[FirstIndex(hits)])
     ELSE Raise("ElementDoesNotExist")

\* PeriodicTable.get_element_by_symbol
get_element_by_symbol(symbol) ==
  LET symbol1 == title(symbol)
      hits == {i \in 1..Len(_elements) : _elements[i].symbol = symbol1}
  IN IF hits # {} THEN Return(_elements[FirstIndex(hits)])
     ELSE Raise("ElementDoesNotExist")

\* get_element_by_atomic_number indexing with the atomic number itself.
get_element_by_atomic_number_off_by_one(n) ==
  IF 1 <= n /\ n <= NUMBER_OF_ELEMENTS
  THEN IF IndexInRange(_elements, n)
       THEN Return(getitem(_elements, n))
       ELSE Raise("IndexError")
  ELSE Raise("ElementDoesNotExist")

\* get_element_by_atomic_number without the lower bound of the check.
get_element_by_atomic_number_no_lower_bound(n) ==
  IF n <= NUMBER_OF_ELEMENTS
  THEN IF IndexInRange(_elements, n - 1)
       THEN Return(getitem(_elements, n - 1))
       ELSE Raise("IndexError")
  ELSE Raise("ElementDoesNotExist")

\* PeriodicTable.get_element_by_atomic_number
get_element_by_atomic_number(n) ==
  IF 1 <= n /\ n <= NUMBER_OF_ELEMENTS
  THEN IF IndexInRange(_elements, n - 1)
       THEN Return(getitem(_elements, n - 1))
       ELSE Raise("IndexError")
  ELSE Raise("ElementDoesNotExist")

\* The scan returning None when no element has the atomic number.
get_element_by_atomic_number_linear_no_raise(n) ==
  LET hits == {i \in 1..Len(_elements) :
                 _elements[i].atomic_number = n}
  IN IF hits # {} THEN Return(_elements[FirstIndex(hits)])
     ELSE Return(None)

\* PeriodicTable.get_element_by_atomic_number of the earlier variant of
\* periodictable.py: the first element of the iteration with the atomic
\* number.
get_element_by_atomic_number_linear(n) ==
  LET hits == {i \in 1..Len(_elements) :
                 _elements[i].atomic_number = n}
  IN IF hits # {} THEN Return(_elements[FirstIndex(hits)])
     ELSE Raise("ElementDoesNotExist")

\* get_elements_by_atomic_number clamping stop to 118 instead of 119.
get_elements_by_atomic_number_stop_118(start, stop, step) ==
  LET start1 == IF start < 1 THEN 1 ELSE start
      stop1 == IF stop > NUMBER_OF_ELEMENTS THEN NUMBER_OF_ELEMENTS ELSE stop
  IN IF step = 0 THEN Raise("ValueError")
     ELSE
       LET r == range(start1, stop1, step) IN
       IF \E i \in 1..Len(r) : ~IndexInRange(_elements, r[i] - 1)
       THEN Raise("IndexError")
       ELSE Return([i \in 1..Len(r) |-> getitem(_elements, r[i] - 1)])

\* PeriodicTable.get_elements_by_atomic_number: the two clamps, then the
\* list comprehension over range(start, stop, step); range() raises
\* ValueError for step 0, and an index outside the list raises IndexError.
get_elements_by_atomic_number(start, stop, step) ==
  LET start1 == IF start < 1 THEN 1 ELSE start
      stop1 == IF stop > NUMBER_OF_ELEMENTS + 1
               THEN NUMBER_OF_ELEMENTS + 1 ELSE stop
  IN IF step = 0 THEN Raise("ValueError")
     ELSE
       LET r == range(start1, stop1, step) IN
       IF \E i \in 1..Len(r) : ~IndexInRange(_elements, r[i] - 1)
       THEN Raise("IndexError")
       ELSE Return([i \in 1..Len(r) |-> getitem(_elements, r[i] - 1)])

\* The strings of get_elements_by_state.
SOLID == <<115, 111, 108, 105, 100>>
LIQUID == <<108, 105, 113, 117, 105, 100>>
GAS == <<103, 97, 115>>

\* get_elements_by_state comparing the argument as it was passed.
get_elements_by_state_no_lower(state) ==
  LET state2 == IF state = <<115>> THEN SOLID
                ELSE IF state = <<108>> THEN LIQUID
                ELSE IF state = <<103>> THEN GAS
                ELSE state
  IN IF state2 \notin {SOLID, LIQUID, GAS} THEN Raise("ValueError")
     ELSE Return(SelectSeq(_elements,
                   LAMBDA element : element.state = Some(state2)))

\* PeriodicTable.get_elements_by_state: str.lower(), the shorthands
\* "s", "l", "g", the check of the state, then the list comprehension.
get_elements_by_state(state) ==
  LET state1 == lower(state)
      state2 == IF state1 = <<115>> THEN SOLID
                ELSE IF state1 = <<108>> THEN LIQUID
                ELSE IF state1 = <<103>> THEN GAS
                ELSE state1
  IN IF state2 \notin {SOLID, LIQUID, GAS} THEN Raise("ValueError")
     ELSE Return(SelectSeq(_elements,
                   LAMBDA element : element.state = Some(state2)))

\* get_elements_by_group comparing the period.
get_elements_by_group_by_period(group) ==
  Return(SelectSeq(_elements, LAMBDA element : Some(element.period) = group))

\* PeriodicTable.get_elements_by_group
get_elements_by_group(group) ==
  Return(SelectSeq(_elements, LAMBDA element : element.group = group))

\* get_elements_by_period over the elements from the last to the first.
get_elements_by_period_reversed(period) ==
  Return(SelectSeq(reversed(_elements),
                   LAMBDA element : element.period = period))

\* PeriodicTable.get_elements_by_period
get_elements_by_period(period) ==
  Return(SelectSeq(_elements, LAMBDA element : element.period = period))

\* Temperatures of calls and of the properties of Element are in ticks of
\* 2 * 10^-5 degrees: a stored value k (10^-4 K) is 5 * k ticks, 273.15 is
\* 13657500 ticks and 32 is 1600000 ticks.
\* Element.melting_point_k and boiling_point_k
kelvin(k) == IF k = None THEN None ELSE Some(5 * k.v)
\* Element.melting_point_c and boiling_point_c: round(k - 273.15, 10)
celsius(k) == IF k = None THEN None ELSE Some(5 * k.v - 13657500)
\* Element.melting_point_f and boiling_point_f:
\* round(1.8 * (k - 273.15) + 32, 10)
fahrenheit(k) ==
  IF k = None THEN None ELSE Some(9 * (k.v - 2731500) + 1600000)

\* The units "k", "c" and "f".
UNIT_K == <<107>>
UNIT_C == <<99>>
UNIT_F == <<102>>

\* getattr(element, f"{target_attribute}_{unit}"); an attribute that does
\* not exist raises AttributeError.
temperature_of(element, target_attribute, unit) ==
  LET k == IF target_attribute = "melting_point"
           THEN element.melting_point_k ELSE element.boiling_point_k
  IN IF unit = UNIT_K THEN kelvin(k)
     ELSE IF unit = UNIT_C THEN celsius(k)
     ELSE fahrenheit(k)

\* The truth value of a number or None: None and 0 are false.
Truthy(x) == x # None /\ x.v # 0

\* The wrapper without the check of the unit.
_get_elements_by_temperature_no_check(target_attribute, minimum, maximum, unit) ==
  LET unit1 == lower(unit) IN
  IF unit1 \notin {UNIT_K, UNIT_C, UNIT_F} THEN Raise("AttributeError")
  ELSE Return(SelectSeq(_elements, LAMBDA element :
         LET temperature == temperature_of(element, target_attribute, unit1)
         IN /\ Truthy(temperature)
            /\ minimum <= temperature.v
            /\ temperature.v <= maximum))

\* PeriodicTable._get_elements_by_temperature (wrap): str.lower(), the
\* check of the unit, then the loop over the elements.
_get_elements_by_temperature(target_attribute, minimum, maximum, unit) ==
  LET unit1 == lower(unit) IN
  IF unit1 \notin {UNIT_K, UNIT_C, UNIT_F} THEN Raise("ValueError")
  ELSE Return(SelectSeq(_elements, LAMBDA element :
         LET temperature == temperature_of(element, target_attribute, unit1)
         IN /\ Truthy(temperature)
            /\ minimum <= temperature.v
            /\ temperature.v <= maximum))

\* PeriodicTable.get_elements_by_melting_point
get_elements_by_melting_point(minimum, maximum, unit) ==
  _get_elements_by_temperature("melting_point", minimum, maximum, unit)

\* PeriodicTable.get_elements_by_boiling_point
get_elements_by_boiling_point(minimum, maximum, unit) ==
  _get_elements_by_temperature("boiling_point", minimum, maximum, unit)

\* The truth value of a density or None: None and 0.0 are false.
TruthyDec(x) == x # None /\ x.v # Dec(0, 0)

\* PeriodicTable.get_elements_by_density
get_elements_by_density(minimum, maximum) ==
  Return(SelectSeq(_elements, LAMBDA element :
    /\ TruthyDec(element.density)
    /\ DecLeq(minimum, element.density.v)
    /\ DecLeq(element.density.v, maximum)))

\* PeriodicTable.get_elements_by_discovery_year
get_elements_by_discovery_year(minimum, maximum) ==
  Return(SelectSeq(_elements, LAMBDA element :
    /\ Truthy(element.discovery_year)
    /\ minimum <= element.discovery_year.v
    /\ element.discovery_year.v <= maximum))

\* str.startswith and str.endswith
startswith(s, prefix) ==
  Len(s) >= Len(prefix) /\ SubSeq(s, 1, Len(prefix)) = prefix
endswith(s, suffix) ==
  Len(s) >= Len(suffix)
    /\ SubSeq(s, Len(s) - Len(suffix) + 1, Len(s)) = suffix

\* The functions passed to get_elements_by_name and get_elements_by_symbol,
\* by a name, and their value on a string.
function_check(f, s) ==
  CASE f = "len(name) == 3" -> Len(s) = 3
    [] f = "name.startswith('bo')" -> startswith(s, <<98, 111>>)
    [] f = "len(name) >= 5 and name.endswith('on')" ->
         Len(s) >= 5 /\ endswith(s, <<111, 110>>)
    [] f = "len(symbol) == 1" -> Len(s) = 1
    [] f = "symbol.startswith('O')" -> startswith(s, <<79>>)
    [] f = "False" -> FALSE
    [] f = "True" -> TRUE

\* The outcome of a method that calls the function it is passed: the list
\* returned and the arguments of the calls of the function, in order.
ReturnCalls(v, calls) == [raised |-> "", value |-> v, calls |-> calls]

\* PeriodicTable.get_elements_by_name
get_elements_by_name(f) ==
  ReturnCalls(
    SelectSeq(_elements, LAMBDA element : function_check(f, element.name)),
    [i \in 1..Len(_elements) |-> _elements[i].name])

\* get_elements_by_symbol passing the name of the element.
get_elements_by_symbol_passing_name(f) ==
  ReturnCalls(
    SelectSeq(_elements, LAMBDA element : function_check(f, element.name)),
    [i \in 1..Len(_elements) |-> _elements[i].name])

\* PeriodicTable.get_elements_by_symbol
get_elements_by_symbol(f) ==
  ReturnCalls(
    SelectSeq(_elements, LAMBDA element : function_check(f, element.symbol)),
    [i \in 1..Len(_elements) |-> _elements[i].symbol])

\* PeriodicTable.__iter__, by the list of the elements it yields.
__iter__ == Return([i \in 1..Len(_elements) |-> _elements[i]])

\* PeriodicTable.__reversed__
__reversed__ == Return(reversed(_elements))

\* __contains__ comparing the symbol in lower case with the stored symbol.
__contains___lower_symbol(info) ==
  LET lower1 == lower(info)
  IN Return(\E i \in 1..Len(_elements) :
              lower1 = _elements[i].name \/ lower1 = _elements[i].symbol)

\* PeriodicTable.__contains__
__contains__(info) ==
  LET lower1 == lower(info)
      title1 == title(info)
  IN Return(\E i \in 1..Len(_elements) :
              lower1 = _elements[i].name \/ title1 = _elements[i].symbol)

\* Element.asdict: the attributes of the element and the values of its
\* properties (the converted temperatures in ticks) in one mapping.
Element_asdict(element) ==
  [k \in DOMAIN element \cup
         {"protons", "electrons", "melting_point_c", "melting_point_f",
          "boiling_point_c", "boiling_point_f"} |->
     CASE k \in {"protons", "electrons"} -> element.atomic_number
       [] k = "melting_point_c" -> celsius(element.melting_point_k)
       [] k = "melting_point_f" -> fahrenheit(element.melting_point_k)
       [] k = "boiling_point_c" -> celsius(element.boiling_point_k)
       [] k = "boiling_point_f" -> fahrenheit(element.boiling_point_k)
       [] OTHER -> element[k]]

\* {element.name: ... for element in self}: the keys are the names, and a
\* name met again replaces the value.
elements_by_name ==
  [name \in {_elements[i].name : i \in 1..Len(_elements)} |->
     LET hits == {i \in 1..Len(_elements) : _elements[i].name = name}
     IN _elements[CHOOSE i \in hits : \A j \in hits : j <= i]]

\* [element_dicts[element.name] for element in list]
dicts_of(element_dicts, list) ==
  [i \in 1..Len(list) |-> element_dicts[list[i].name]]

\* PeriodicTable.asdict with the noble gases under "halogens".
asdict_halogens_slip(elements_to_dict, elements_only) ==
  LET element_dicts ==
        [name \in DOMAIN elements_by_name |->
           Element_asdict(elements_by_name[name])]
  IN IF elements_only
     THEN IF ~elements_to_dict THEN Return(elements_by_name)
          ELSE Return(element_dicts)
     ELSE IF ~elements_to_dict
     THEN Return(
       [elements |-> elements_by_name,
        elements_with_stable_isotope |-> _elements_with_stable_isotope,
        elements_without_stable_isotope |-> _elements_without_stable_isotope,
        alkali_metals |-> _alkali_metals,
        alkaline_earth_metals |-> _alkaline_earth_metals,
        lanthanides |-> _lanthanides,
        actinides |-> _actinides,
        halogens |-> _noble_gases,
        noble_gases |-> _noble_gases])
     ELSE Return(
       [elements |-> element_dicts,
        elements_with_stable_isotope |->
          dicts_of(element_dicts, _elements_with_stable_isotope),
        elements_without_stable_isotope |->
          dicts_of(element_dicts, _elements_without_stable_isotope),
        alkali_metals |-> dicts_of(element_dicts, _alkali_metals),
        alkaline_earth_metals |->
          dicts_of(element_dicts, _alkaline_earth_metals),
        lanthanides |-> dicts_of(element_dicts, _lanthanides),
        actinides |-> dicts_of(element_dicts, _actinides),
        halogens |-> dicts_of(element_dicts, _noble_gases),
        noble_gases |-> dicts_of(element_dicts, _noble_gases)])

\* PeriodicTable.asdict
asdict(elements_to_dict, elements_only) ==
  LET element_dicts ==
        [name \in DOMAIN elements_by_name |->
           Element_asdict(elements_by_name[name])]
  IN IF elements_only
     THEN IF ~elements_to_dict THEN Return(elements_by_name)
          ELSE Return(element_dicts)
     ELSE IF ~elements_to_dict
     THEN Return(
       [elements |-> elements_by_name,
        elements_with_stable_isotope |-> _elements_with_stable_isotope,
        elements_without_stable_isotope |-> _elements_without_stable_isotope,
        alkali_metals |-> _alkali_metals,
        alkaline_earth_metals |-> _alkaline_earth_metals,
        lanthanides |-> _lanthanides,
        actinides |-> _actinides,
        halogens |-> _halogens,
        noble_gases |-> _noble_gases])
     ELSE Return(
       [elements |-> element_dicts,
        elements_with_stable_isotope |->
          dicts_of(element_dicts, _elements_with_stable_isotope),
        elements_without_stable_isotope |->
          dicts_of(element_dicts, _elements_without_stable_isotope),
        alkali_metals |-> dicts_of(element_dicts, _alkali_metals),
        alkaline_earth_metals |->
          dicts_of(element_dicts, _alkaline_earth_metals),
        lanthanides |-> dicts_of(element_dicts, _lanthanides),
        actinides |-> dicts_of(element_dicts, _actinides),
        halogens |-> dicts_of(element_dicts, _halogens),
        noble_gases |-> dicts_of(element_dicts, _noble_gases)])

\* PeriodicTable.__len__
__len__ == Return(Len(_elements))

(***************************************************************************)
(* The calls made on a constructed table, and their arguments.             *)
(***************************************************************************)
\* Integer arguments go Margin below 1 and Margin above 119.
Margin == 3
\* Steps of get_elements_by_atomic_number range over -MaxStep..MaxStep.
MaxStep == 3

swapcase(s) ==
  [i \in 1..Len(s) |-> IF IsUpper(s[i]) THEN ToLower(s[i]) ELSE ToUpper(s[i])]

\* The spellings of a string tried as an argument: as it is, lower, upper,
\* title and inverted title case.
Spellings(s) == {s, lower(s), upper(s), title(s), swapcase(title(s))}

\* Strings that name no element.
Junk ==
  { <<>>,                                   \* ""
    <<120,120>>,                            \* "xx"
    <<104,32>>,                             \* "h "
    <<32,104,101>>,                         \* " he"
    <<104,50>>,                             \* "h2"
    <<104,45,104,101>>,                     \* "h-he"
    <<105,114,111,110,115>>,                \* "irons"
    <<105,114,111>> }                       \* "iro"

\* Every name, symbol and pattern of the dataset in every spelling, and
\* the strings that name no element.
Tokens ==
  UNION { Spellings(DATA[i].attrs.name) \cup Spellings(DATA[i].attrs.symbol)
            \cup UNION {Spellings(p) : p \in DATA[i].strs}
          : i \in 1..Len(DATA) }
    \cup Junk

AtomicNumbers == (1 - Margin)..(NUMBER_OF_ELEMENTS + 1 + Margin)

\* Range bounds: around both ends of the table, and the bounds the tests
\* of get_elements_by_atomic_number use.
RangeBounds ==
  {n \in AtomicNumbers : n <= 1 + Margin \/ n >= NUMBER_OF_ELEMENTS - Margin}
    \cup {10, 33, 100}

Steps == (0 - MaxStep)..MaxStep

\* Arguments of get_elements_by_state: the states and shorthands in every
\* spelling, and strings that are no state.
StateArgs ==
  UNION {Spellings(x) : x \in {SOLID, LIQUID, GAS, <<115>>, <<108>>, <<103>>}}
    \cup { <<>>,                                     \* ""
           <<117, 110, 107, 110, 111, 119, 110>>,    \* "unknown"
           <<112, 108, 97, 115, 109, 97>>,           \* "plasma"
           <<115, 111>>,                             \* "so"
           <<115, 111, 108, 105, 100, 32>>,          \* "solid "
           <<110, 111, 110, 101>> }                  \* "none"

\* Arguments for the unit of a temperature: the units in both cases, and
\* strings that are no unit.
UnitArgs ==
  UNION {Spellings(u) : u \in {UNIT_K, UNIT_C, UNIT_F}}
    \cup { <<>>,                                     \* ""
           <<120>>,                                  \* "x"
           <<107, 99>>,                              \* "kc"
           <<107, 101, 108, 118, 105, 110>> }        \* "kelvin"

\* A temperature given in hundredths of a degree, in ticks.
Degrees(hundredths) == 500 * hundredths

\* Arguments for the bounds of a temperature: the bounds of the tests
\* (-273.16, -273.15, -250, 600, 601, 6191.3, 6191.4), 0, the melting point
\* of hydrogen (13.99), and a bound below and one above every temperature.
TemperatureArgs ==
  {Degrees(h) : h \in {-1000000, -27316, -27315, -25000, 0, 1399,
                       60000, 60100, 619130, 619140, 1000000}}

\* Arguments of get_elements_by_group: None and the integers around 1..18.
GroupArgs == {None} \cup {Some(g) : g \in (1 - Margin)..(18 + Margin)}

\* Arguments of get_elements_by_period: the integers around 1..7.
PeriodArgs == (1 - Margin)..(7 + Margin)

\* Arguments of get_elements_by_discovery_year: the years of the tests,
\* years of the dataset (-9000, 1766) and the years around 0.
YearArgs == {-10000, -9999, -9000, -1, 0, 1, 1766, 2005, 2010}

\* Arguments of get_elements_by_density: the bounds of the tests (-1, 0,
\* 22, 23) and densities of the dataset (hydrogen, osmium).
DensityArgs ==
  {Dec(-1, 0), Dec(0, 0), Dec(0, 8988), Dec(22, 0), Dec(22, 59000000),
   Dec(23, 0)}

\* The functions passed to get_elements_by_name and get_elements_by_symbol.
NameChecks ==
  {"len(name) == 3", "name.startswith('bo')",
   "len(name) >= 5 and name.endswith('on')", "False", "True"}
SymbolChecks ==
  {"len(symbol) == 1", "symbol.startswith('O')", "False", "True"}

\* The names of the methods, the properties and the lists of PeriodicTable.
ReservedNames ==
  {
    \* get_element_by_name
    <<103,101,116,95,101,108,101,109,101,110,116,95,98,121,95,110,97,109,101>>,
    \* get_elements_by_name
    <<103,101,116,95,101,108,101,109,101,110,116,115,95,98,121,95,110,97,109,101>>,
    \* get_element_by_atomic_number
    <<103,101,116,95,101,108,101,109,101,110,116,95,98,121,95,97,116,111,109,105,99,95,110,117,109,98,101,114>>,
    \* get_elements_by_atomic_number
    <<103,101,116,95,101,108,101,109,101,110,116,115,95,98,121,95,97,116,111,109,105,99,95,110,117,109,98,101,114>>,
    \* get_element_by_symbol
    <<103,101,116,95,101,108,101,109,101,110,116,95,98,121,95,115,121,109,98,111,108>>,
    \* get_elements_by_symbol
    <<103,101,116,95,101,108,101,109,101,110,116,115,95,98,121,95,115,121,109,98,111,108>>,
    \* get_elements_by_state
    <<103,101,116,95,101,108,101,109,101,110,116,115,95,98,121,95,115,116,97,116,101>>,
    \* get_elements_by_group
    <<103,101,116,95,101,108,101,109,101,110,116,115,95,98,121,95,103,114,111,117,112>>,
    \* get_elements_by_period
    <<103,101,116,95,101,108,101,109,101,110,116,115,95,98,121,95,112,101,114,105,111,100>>,
    \* _get_elements_by_temperature
    <<95,103,101,116,95,101,108,101,109,101,110,116,115,95,98,121,95,116,101,109,112,101,114,97,116,117,114,101>>,
    \* get_elements_by_melting_point
    <<103,101,116,95,101,108,101,109,101,110,116,115,95,98,121,95,109,101,108,116,105,110,103,95,112,111,105,110,116>>,
    \* get_elements_by_boiling_point
    <<103,101,116,95,101,108,101,109,101,110,116,115,95,98,121,95,98,111,105,108,105,110,103,95,112,111,105,110,116>>,
    \* get_elements_by_density
    <<103,101,116,95,101,108,101,109,101,110,116,115,95,98,121,95,100,101,110,115,105,116,121>>,
    \* get_elements_by_discovery_year
    <<103,101,116,95,101,108,101,109,101,110,116,115,95,98,121,95,100,105,115,99,111,118,101,114,121,95,121,101,97,114>>,
    \* elements
    <<101,108,101,109,101,110,116,115>>,
    \* elements_with_stable_isotope
    <<101,108,101,109,101,110,116,115,95,119,105,116,104,95,115,116,97,98,108,101,95,105,115,111,116,111,112,101>>,
    \* elements_without_stable_isotope
    <<101,108,101,109,101,110,116,115,95,119,105,116,104,111,117,116,95,115,116,97,98,108,101,95,105,115,111,116,111,112,101>>,
    \* alkali_metals
    <<97,108,107,97,108,105,95,109,101,116,97,108,115>>,
    \* alkaline_earth_metals
    <<97,108,107,97,108,105,110,101,95,101,97,114,116,104,95,109,101,116,97,108,115>>,
    \* lanthanides
    <<108,97,110,116,104,97,110,105,100,101,115>>,
    \* actinides
    <<97,99,116,105,110,105,100,101,115>>,
    \* halogens
    <<104,97,108,111,103,101,110,115>>,
    \* noble_gases
    <<110,111,98,108,101,95,103,97,115,101,115>>,
    \* asdict
    <<97,115,100,105,99,116>>,
    \* _elements
    <<95,101,108,101,109,101,110,116,115>>,
    \* _elements_with_stable_isotope
    <<95,101,108,101,109,101,110,116,115,95,119,105,116,104,95,115,116,97,98,108,101,95,105,115,111,116,111,112,101>>,
    \* _elements_without_stable_isotope
    <<95,101,108,101,109,101,110,116,115,95,119,105,116,104,111,117,116,95,115,116,97,98,108,101,95,105,115,111,116,111,112,101>>,
    \* _alkali_metals
    <<95,97,108,107,97,108,105,95,109,101,116,97,108,115>>,
    \* _alkaline_earth_metals
    <<95,97,108,107,97,108,105,110,101,95,101,97,114,116,104,95,109,101,116,97,108,115>>,
    \* _lanthanides
    <<95,108,97,110,116,104,97,110,105,100,101,115>>,
    \* _actinides
    <<95,97,99,116,105,110,105,100,101,115>>,
    \* _halogens
    <<95,104,97,108,111,103,101,110,115>>,
    \* _noble_gases
    <<95,110,111,98,108,101,95,103,97,115,101,115>> }

\* The caller makes its calls one after the other: a call is made when the
\* outcome of the one before has been dropped.
Idle == pc = "ready" /\ last = NoCall

CallGetElementByName ==
  /\ Idle
  /\ \E name \in Tokens :
       last' = Call("get_element_by_name", <<name>>,
                    get_element_by_name(name))
  /\ UNCHANGED table

CallGetElementBySymbol ==
  /\ Idle
  /\ \E symbol \in Tokens :
       last' = Call("get_element_by_symbol", <<symbol>>,
                    get_element_by_symbol(symbol))
  /\ UNCHANGED table

CallGetElementByAtomicNumber ==
  /\ Idle
  /\ \E n \in AtomicNumbers :
       last' = Call("get_element_by_atomic_number", <<n>>,
                    get_element_by_atomic_number(n))
  /\ UNCHANGED table

CallGetElementByAtomicNumberLinear ==
  /\ Idle
  /\ \E n \in AtomicNumbers :
       last' = Call("get_element_by_atomic_number_linear", <<n>>,
                    get_element_by_atomic_number_linear(n))
  /\ UNCHANGED table

CallGetElementsByAtomicNumber ==
  /\ Idle
  /\ \E start \in RangeBounds, stop \in RangeBounds, step \in Steps :
       last' = Call("get_elements_by_atomic_number", <<start, stop, step>>,
                    get_elements_by_atomic_number(start, stop, step))
  /\ UNCHANGED table

CallLen ==
  /\ Idle
  /\ last' = Call("__len__", <<>>, __len__)
  /\ UNCHANGED table

CallGetElementsByState ==
  /\ Idle
  /\ \E state \in StateArgs :
       last' = Call("get_elements_by_state", <<state>>,
                    get_elements_by_state(state))
  /\ UNCHANGED table

CallGetElementsByGroup ==
  /\ Idle
  /\ \E group \in GroupArgs :
       last' = Call("get_elements_by_group", <<group>>,
                    get_elements_by_group(group))
  /\ UNCHANGED table

CallGetElementsByPeriod ==
  /\ Idle
  /\ \E period \in PeriodArgs :
       last' = Call("get_elements_by_period", <<period>>,
                    get_elements_by_period(period))
  /\ UNCHANGED table

CallGetElementsByMeltingPoint ==
  /\ Idle
  /\ \E minimum \in TemperatureArgs, maximum \in TemperatureArgs,
        unit \in UnitArgs :
       last' = Call("get_elements_by_melting_point",
                    <<minimum, maximum, unit>>,
                    get_elements_by_melting_point(minimum, maximum, unit))
  /\ UNCHANGED table

CallGetElementsByBoilingPoint ==
  /\ Idle
  /\ \E minimum \in TemperatureArgs, maximum \in TemperatureArgs,
        unit \in UnitArgs :
       last' = Call("get_elements_by_boiling_point",
                    <<minimum, maximum, unit>>,
                    get_elements_by_boiling_point(minimum, maximum, unit))
  /\ UNCHANGED table

CallGetElementsByDensity ==
  /\ Idle
  /\ \E minimum \in DensityArgs, maximum \in DensityArgs :
       last' = Call("get_elements_by_density", <<minimum, maximum>>,
                    get_elements_by_density(minimum, maximum))
  /\ UNCHANGED table

CallGetElementsByDiscoveryYear ==
  /\ Idle
  /\ \E minimum \in YearArgs, maximum \in YearArgs :
       last' = Call("get_elements_by_discovery_year", <<minimum, maximum>>,
                    get_elements_by_discovery_year(minimum, maximum))
  /\ UNCHANGED table

CallGetElementsByName ==
  /\ Idle
  /\ \E f \in NameChecks :
       last' = Call("get_elements_by_name", <<f>>, get_elements_by_name(f))
  /\ UNCHANGED table

CallGetElementsBySymbol ==
  /\ Idle
  /\ \E f \in SymbolChecks :
       last' = Call("get_elements_by_symbol", <<f>>,
                    get_elements_by_symbol(f))
  /\ UNCHANGED table

CallIter ==
  /\ Idle
  /\ last' = Call("__iter__", <<>>, __iter__)
  /\ UNCHANGED table

\* __reversed__ reversing the list of the table in place.
CallReversedInPlace ==
  /\ Idle
  /\ last' = Call("__reversed__", <<>>, __reversed__)
  /\ _elements' = reversed(_elements)
  /\ UNCHANGED <<pc, atomic_number, attrs, views>>

CallReversed ==
  /\ Idle
  /\ last' = Call("__reversed__", <<>>, __reversed__)
  /\ UNCHANGED table

CallContains ==
  /\ Idle
  /\ \E info \in Tokens :
       last' = Call("__contains__", <<info>>, __contains__(info))
  /\ UNCHANGED table

\* Arguments of Element(info): every token as a str, the integers around
\* 1..118, and values that are neither str nor int (1.0, 118.0, 0.5 taken
\* as 0, None).
ElementArgs ==
  {PyStr(t) : t \in Tokens} \cup {PyInt(n) : n \in AtomicNumbers}
    \cup {PyFloat(1), PyFloat(118), PyFloat(0), PyNone}

\* Element(info) of chemelements.py with the match statement.
CallElement ==
  /\ Idle
  /\ \E info \in ElementArgs :
       last' = Call("Element", <<info>>, Element(info))
  /\ UNCHANGED table

\* Element(info) of chemelements.py with the loop over DATA.
CallElementFromData ==
  /\ Idle
  /\ \E info \in ElementArgs :
       last' = Call("ElementFromData", <<info>>, ElementFromData(info))
  /\ UNCHANGED table

\* The operators of a comparison, and the operands: elements of the tests
\* (neon, helium, manganese, magnesium, barium, technetium, terbium, lead,
\* gold, astatine, actinium), the first and the last element, and values that
\* are no Element ("He", 2, 2.0, None).
CompareOps == {"==", "!=", "<", "<=", ">", ">="}
CompareElements ==
  {PyElement(ElementFromData(PyInt(n)).value) :
     n \in {1, 2, 10, 12, 25, 43, 56, 65, 79, 82, 85, 89, 118}}
CompareOthers == {PyStr(<<72, 101>>), PyInt(2), PyFloat(2), PyNone}

\* A comparison with an Element on one side at least.
CallCompare ==
  /\ Idle
  /\ \E op \in CompareOps,
        operands \in (CompareElements \cup CompareOthers)
                       \X (CompareElements \cup CompareOthers) :
       /\ "Element" \in {operands[1].type, operands[2].type}
       /\ last' = Call(op, operands,
                       compare(op, operands[1], operands[2]))
  /\ UNCHANGED table

CallAsdict ==
  /\ Idle
  /\ \E elements_to_dict \in BOOLEAN, elements_only \in BOOLEAN :
       last' = Call("asdict", <<elements_to_dict, elements_only>>,
                    asdict(elements_to_dict, elements_only))
  /\ UNCHANGED table

\* The caller drops the outcome of its last call.
Drop ==
  /\ pc = "ready"
  /\ last # NoCall
  /\ last' = NoCall
  /\ UNCHANGED table

Next ==
  \/ Construct
  \/ CallGetElementByName
  \/ CallGetElementBySymbol
  \/ CallGetElementByAtomicNumber
  \/ CallGetElementByAtomicNumberLinear
  \/ CallGetElementsByAtomicNumber
  \/ CallLen
  \/ CallGetElementsByState
  \/ CallGetElementsByGroup
  \/ CallGetElementsByPeriod
  \/ CallGetElementsByMeltingPoint
  \/ CallGetElementsByBoilingPoint
  \/ CallGetElementsByDensity
  \/ CallGetElementsByDiscoveryYear
  \/ CallGetElementsByName
  \/ CallGetElementsBySymbol
  \/ CallIter
  \/ CallReversed
  \/ CallContains
  \/ CallElement
  \/ CallElementFromData
  \/ CallCompare
  \/ CallAsdict
  \/ Drop

Spec == Init /\ [][Next]_vars

(***************************************************************************)
(* The table with an element changed by its holder.  Element keeps its     *)
(* data in plain instance attributes (no property, __slots__ or            *)
(* __setattr__ guards them), and the table hands out the Element objects   *)
(* it holds, so that an assignment to an attribute of an element is seen   *)
(* by every later call on the table.                                       *)
(***************************************************************************)

\* The most attributes of the elements of a table that differ from the
\* values of the dataset.
MaxAssigned == 1

\* The element and the attributes assigned to, with the values assigned:
\* for a temperature 0 K and 273.15 K (0 degrees Celsius), for the density
\* 0 and 1 g/cm^3, for the discovery year the years 0 and 1.
AssignTargets == {1}
AssignAttributes ==
  {"melting_point_k", "boiling_point_k", "density", "discovery_year"}
AssignValues(attribute) ==
  CASE attribute \in {"melting_point_k", "boiling_point_k"} ->
         {Some(0), Some(2731500)}
    [] attribute = "density" -> {Some(Dec(0, 0)), Some(Dec(1, 0))}
    [] attribute = "discovery_year" -> {Some(0), Some(1)}

\* The attributes that no longer hold the value of the dataset.
Assigned ==
  {t \in AssignTargets \X AssignAttributes :
     _elements[t[1]][t[2]] # DATA[t[1]].attrs[t[2]]}

\* element.<attribute> = value, as seen through a reference to an element:
\* the object with that atomic number changes, every other one is as before.
assign(element, n, attribute, value) ==
  IF element.atomic_number = n THEN [element EXCEPT ![attribute] = value]
  ELSE element
assign_in(list, n, attribute, value) ==
  [i \in 1..Len(list) |-> assign(list[i], n, attribute, value)]

\* The holder of an element of the table assigns to one of its attributes:
\* the list, the views and the attributes of the table refer to the same
\* object.
AssignElementAttribute ==
  /\ Idle
  /\ Cardinality(Assigned) < MaxAssigned
  /\ \E n \in AssignTargets, attribute \in AssignAttributes :
       \E value \in AssignValues(attribute) :
         LET upd(list) == assign_in(list, n, attribute, value) IN
         /\ _elements' = upd(_elements)
         /\ _elements_with_stable_isotope' =
              upd(_elements_with_stable_isotope)
         /\ _elements_without_stable_isotope' =
              upd(_elements_without_stable_isotope)
         /\ _alkali_metals' = upd(_alkali_metals)
         /\ _alkaline_earth_metals' = upd(_alkaline_earth_metals)
         /\ _lanthanides' = upd(_lanthanides)
         /\ _actinides' = upd(_actinides)
         /\ _halogens' = upd(_halogens)
         /\ _noble_gases' = upd(_noble_gases)
         /\ _natural_elements' = upd(_natural_elements)
         /\ _synthetic_elements' = upd(_synthetic_elements)
         /\ attrs' = {[key |-> a.key,
                       value |-> assign(a.value, n, attribute, value)] :
                        a \in attrs}
  /\ UNCHANGED <<pc, atomic_number, last>>

\* The construction, the assignments, and the calls that read the
\* attributes assigned to.
NextAssigned ==
  \/ Construct
  \/ AssignElementAttribute
  \/ CallGetElementsByMeltingPoint
  \/ CallGetElementsByBoilingPoint
  \/ CallGetElementsByDensity
  \/ CallGetElementsByDiscoveryYear
  \/ Drop

SpecAssigned == Init /\ [][NextAssigned]_vars

(***************************************************************************)
(* Properties of the lookups by atomic number, name and symbol.            *)
(***************************************************************************)
IsCall(op) == pc = "ready" /\ last.op = op

\* The atomic numbers of a list of elements.
Numbers(list) == [i \in 1..Len(list) |-> list[i].atomic_number]

\* C1: for every n in 1..118, get_element_by_atomic_number(n) returns an
\* element whose atomic_number is n, and it is elements[n-1].
C1_ByAtomicNumber ==
  (IsCall("get_element_by_atomic_number") /\ last.args[1] \in 1..118) =>
    /\ last.out.raised = ""
    /\ last.out.value.atomic_number = last.args[1]
    /\ last.out.value = _elements[last.args[1]]

C1_Witness ==
  /\ IsCall("get_element_by_atomic_number")
  /\ last.args[1] = 118
  /\ last.out.raised = ""
  /\ last.out.value.atomic_number = 118

\* C2: get_element_by_atomic_number(n) raises ElementDoesNotExist for
\* every n outside 1..118 and returns no element for such n.
C2_OutsideRaises ==
  (IsCall("get_element_by_atomic_number") /\ last.args[1] \notin 1..118) =>
    last.out = Raise("ElementDoesNotExist")

C2_Witness ==
  /\ IsCall("get_element_by_atomic_number")
  /\ last.args[1] = 0
  /\ last.out = Raise("ElementDoesNotExist")

\* C3: for every element e, get_element_by_name(e.name) returns e, and
\* get_element_by_symbol returns e for e.symbol as it is, in lower case and
\* in upper case.
C3_RoundTrip ==
  pc = "ready" =>
    \A i \in 1..Len(_elements) :
      LET e == _elements[i] IN
      /\ (last.op = "get_element_by_name" /\ last.args[1] = e.name)
           => last.out = Return(e)
      /\ (/\ last.op = "get_element_by_symbol"
          /\ last.args[1] \in {e.symbol, lower(e.symbol), upper(e.symbol)})
           => last.out = Return(e)

\* The symbol of helium in upper case finds helium.
C3_Witness ==
  /\ IsCall("get_element_by_symbol")
  /\ last.args[1] = <<72, 69>>
  /\ last.out = Return(_elements[2])

\* A string matches a name or symbol case-insensitively when the two are
\* equal once both are in lower case.
SameIgnoringCase(s, t) == lower(s) = lower(t)

\* C4: get_element_by_name(t) and get_element_by_symbol(t) raise
\* ElementDoesNotExist for every t that matches no name (symbol) whatever
\* the case, and a returned value is an element that t matches.
C4_NoMatchRaises ==
  /\ IsCall("get_element_by_name") =>
       IF \E i \in 1..Len(_elements) :
            SameIgnoringCase(last.args[1], _elements[i].name)
       THEN last.out.raised = "" =>
              /\ last.out.value \in {_elements[i] : i \in 1..Len(_elements)}
              /\ SameIgnoringCase(last.args[1], last.out.value.name)
       ELSE last.out = Raise("ElementDoesNotExist")
  /\ IsCall("get_element_by_symbol") =>
       IF \E i \in 1..Len(_elements) :
            SameIgnoringCase(last.args[1], _elements[i].symbol)
       THEN last.out.raised = "" =>
              /\ last.out.value \in {_elements[i] : i \in 1..Len(_elements)}
              /\ SameIgnoringCase(last.args[1], last.out.value.symbol)
       ELSE last.out = Raise("ElementDoesNotExist")

\* "aluminum" is a pattern of Element but the name of no element.
C4_Witness ==
  /\ IsCall("get_element_by_name")
  /\ last.args[1] = <<97, 108, 117, 109, 105, 110, 117, 109>>
  /\ last.out = Raise("ElementDoesNotExist")

(***************************************************************************)
(* Properties of get_elements_by_atomic_number.                            *)
(***************************************************************************)
Max(a, b) == IF a >= b THEN a ELSE b
Min(a, b) == IF a <= b THEN a ELSE b

\* C5: with step > 0 the result holds the elements whose atomic numbers
\* are range(max(start, 1), min(stop, 119), step), in that order;
\* (1, 10, 2) gives 1, 3, 5, 7, 9 and start <= 1, stop >= 119 with step 1
\* gives the full table.
C5_AscendingRange ==
  (IsCall("get_elements_by_atomic_number") /\ last.args[3] > 0) =>
    LET start == last.args[1]
        stop == last.args[2]
        step == last.args[3]
        expected == range(Max(start, 1), Min(stop, 119), step)
    IN /\ last.out.raised = ""
       /\ Numbers(last.out.value) = expected
       /\ \A i \in 1..Len(expected) :
            last.out.value[i] = _elements[expected[i]]
       /\ last.args = <<1, 10, 2>> =>
            Numbers(last.out.value) = <<1, 3, 5, 7, 9>>
       /\ (start <= 1 /\ stop >= 119 /\ step = 1) =>
            last.out.value = _elements

C5_Witness ==
  /\ IsCall("get_elements_by_atomic_number")
  /\ last.args = <<1 - Margin, 119 + Margin, 1>>
  /\ last.out = Return(_elements)

\* C6: get_elements_by_atomic_number does not raise for any start and stop
\* and any step other than 0.
C6_NeverRaises ==
  (IsCall("get_elements_by_atomic_number") /\ last.args[3] # 0) =>
    last.out.raised = ""

\* C7: with step < 0 the result holds the elements whose atomic numbers
\* are the members within 1..118 of the descending progression from start
\* down to, not including, stop, in that order, and no other element (start
\* taken as the method clamps it).
C7_DescendingRange ==
  (/\ IsCall("get_elements_by_atomic_number")
   /\ last.args[3] < 0
   /\ last.out.raised = "") =>
    LET progression == range(Max(last.args[1], 1), last.args[2], last.args[3])
    IN Numbers(last.out.value) =
         SelectSeq(progression, LAMBDA n : n \in 1..118)

(***************************************************************************)
(* Properties of the views built by __init__.                              *)
(***************************************************************************)
\* C8: after construction each category view holds exactly the elements
\* that satisfy its predicate, in the order of the element list.
C8_CategoryViews ==
  pc = "ready" =>
    /\ _alkali_metals = SelectSeq(_elements,
         LAMBDA e : e.group = Some(1) /\ e.atomic_number # 1)
    /\ _alkaline_earth_metals = SelectSeq(_elements,
         LAMBDA e : e.group = Some(2))
    /\ _halogens = SelectSeq(_elements, LAMBDA e : e.group = Some(17))
    /\ _noble_gases = SelectSeq(_elements, LAMBDA e : e.group = Some(18))
    /\ _lanthanides = SelectSeq(_elements,
         LAMBDA e : e.atomic_number \in 57..71)
    /\ _actinides = SelectSeq(_elements,
         LAMBDA e : e.atomic_number \in 89..103)

\* The table is built; hydrogen is in group 1 and is no alkali metal.
C8_Witness ==
  /\ pc = "ready"
  /\ _elements[1].group = Some(1)
  /\ Numbers(_alkali_metals) = <<3, 11, 19, 37, 55, 87>>
  /\ Numbers(_lanthanides) = [i \in 1..15 |-> 56 + i]

\* The elements of a list, as a set.
Range(list) == {list[i] : i \in 1..Len(list)}

\* C9: len(table) is 118, and the lists of elements with and without a
\* stable isotope partition the elements: the first holds only elements
\* with has_stable_isotope, the second only elements without, every
\* element is in exactly one, and the sizes add up to 118.
C9_StablePartition ==
  /\ IsCall("__len__") => last.out = Return(118)
  /\ pc = "ready" =>
       /\ \A e \in Range(_elements_with_stable_isotope) :
            e.has_stable_isotope
       /\ \A e \in Range(_elements_without_stable_isotope) :
            ~e.has_stable_isotope
       /\ Range(_elements_with_stable_isotope)
            \cup Range(_elements_without_stable_isotope) = Range(_elements)
       /\ Range(_elements_with_stable_isotope)
            \cap Range(_elements_without_stable_isotope) = {}
       /\ Len(_elements_with_stable_isotope)
            + Len(_elements_without_stable_isotope) = 118

C9_Witness ==
  /\ IsCall("__len__")
  /\ last.out = Return(118)
  /\ Len(_elements_with_stable_isotope) = 80
  /\ Len(_elements_without_stable_isotope) = 38

C11_ViewSizes ==
  pc = "ready" =>
    /\ Len(_alkali_metals) = 6
    /\ Len(_alkaline_earth_metals) = 6
    /\ Len(_halogens) = 6
    /\ Len(_noble_gases) = 7
    /\ Len(_lanthanides) = 15
    /\ Len(_actinides) = 15

\* The table is built; the last noble gas is oganesson and the last
\* actinide lawrencium.
C11_Witness ==
  /\ pc = "ready"
  /\ _noble_gases[7].atomic_number = 118
  /\ _actinides[15].atomic_number = 103

\* The number of iterations of the loop of __init__ that are done.
Iterations ==
  IF pc = "constructing" THEN atomic_number - 1 ELSE NUMBER_OF_ELEMENTS

\* C12: after every iteration k of the construction loop the element list
\* has length k and elements[i].atomic_number = i + 1 for all i < k; on the
\* finished table this holds for all i in 0..117.
C12_PositionInvariant ==
  pc # "failed" =>
    /\ Len(_elements) = Iterations
    /\ \A i \in 0..(Iterations - 1) : _elements[i + 1].atomic_number = i + 1

\* Half way through the loop.
C12_Witness ==
  /\ pc = "constructing"
  /\ Len(_elements) = 59
  /\ _elements[59].atomic_number = 59
(***************************************************************************)
(* Properties of the filters.                                              *)
(***************************************************************************)
\* The state a string stands for, whatever its case: a state or its
\* one-letter shorthand; <<>> when it stands for none.
StateNamed(t) ==
  IF SameIgnoringCase(t, SOLID) \/ SameIgnoringCase(t, <<115>>) THEN SOLID
  ELSE IF SameIgnoringCase(t, LIQUID) \/ SameIgnoringCase(t, <<108>>)
    THEN LIQUID
  ELSE IF SameIgnoringCase(t, GAS) \/ SameIgnoringCase(t, <<103>>) THEN GAS
  ELSE <<>>

\* The members of a list are those elements of the table, in the order of
\* the table, that are in the set.
IsFilter(list, set) ==
  list = SelectSeq(_elements, LAMBDA e : e \in set)

C14_InvalidArgument ==
  /\ "ValueError" # "ElementDoesNotExist"
  /\ (IsCall("get_elements_by_state") /\ StateNamed(last.args[1]) = <<>>)
       => last.out = Raise("ValueError")
  /\ (/\ pc = "ready"
      /\ last.op \in {"get_elements_by_melting_point",
                      "get_elements_by_boiling_point"}
      /\ \A u \in {UNIT_K, UNIT_C, UNIT_F} : ~SameIgnoringCase(last.args[3], u))
       => last.out = Raise("ValueError")

\* "kelvin" is no unit; the bounds are 601 and 600.
C14_Witness ==
  /\ IsCall("get_elements_by_melting_point")
  /\ last.args = <<Degrees(60100), Degrees(60000),
                   <<107, 101, 108, 118, 105, 110>> >>
  /\ last.out = Raise("ValueError")

\* The temperature of an element in a unit, in ticks, from the stored
\* value k (10^-4 K): K itself, C = K - 273.15, F = 1.8 * (K - 273.15) + 32
\* (1.8 * 5 ticks = 9 ticks).
Converted(k, unit) ==
  IF SameIgnoringCase(unit, UNIT_K) THEN 5 * k
  ELSE IF SameIgnoringCase(unit, UNIT_C) THEN 5 * k - Degrees(27315)
  ELSE 9 * (k - 2731500) + Degrees(3200)

C17_ByGroup ==
  IsCall("get_elements_by_group") =>
    LET g == last.args[1]
        result == last.out.value
    IN /\ last.out.raised = ""
       /\ \A i \in 1..Len(_elements) :
            (_elements[i] \in Range(result)) <=>
              IF g = None THEN ~_elements[i].group.some
              ELSE _elements[i].group.some /\ _elements[i].group.v = g.v
       /\ Numbers(result) = SelectSeq(Numbers(_elements),
                              LAMBDA n : n \in Range(Numbers(result)))
       /\ g = Some(1) =>
            /\ result[1].atomic_number = 1
            /\ Tail(result) = _alkali_metals
       /\ g = Some(2) => result = _alkaline_earth_metals
       /\ g = Some(17) => result = _halogens
       /\ g = Some(18) => result = _noble_gases

\* None gives the 28 elements without a group, from lanthanum on.
C17_Witness ==
  /\ IsCall("get_elements_by_group")
  /\ last.args[1] = None
  /\ Len(last.out.value) = 28
  /\ last.out.value[1].atomic_number = 57

\* C18: get_elements_by_name(p) and get_elements_by_symbol(p) call p once
\* per element, on its name (symbol), in ascending order of atomic number,
\* and return exactly the elements for which p holds, in that order; a p
\* that never holds gives the empty list and no error.
C18_ByFunction ==
  (pc = "ready"
     /\ last.op \in {"get_elements_by_name", "get_elements_by_symbol"}) =>
    LET key(e) == IF last.op = "get_elements_by_name" THEN e.name
                  ELSE e.symbol
        f == last.args[1]
    IN /\ last.out.raised = ""
       /\ Len(last.out.calls) = 118
       /\ \A n \in 1..118 : last.out.calls[n] = key(_elements[n])
       /\ IsFilter(last.out.value,
            {e \in Range(_elements) : function_check(f, key(e))})
       /\ f = "False" => last.out.value = <<>>
       /\ f = "len(name) == 3" => Numbers(last.out.value) = <<50>>
       /\ f = "name.startswith('bo')" =>
            Numbers(last.out.value) = <<5, 107>>
       /\ f = "len(symbol) == 1" => Len(last.out.value) = 14
       /\ f = "symbol.startswith('O')" =>
            Numbers(last.out.value) = <<8, 76, 118>>

\* The symbols of one letter: 14 elements, from hydrogen to uranium.
C18_Witness ==
  /\ IsCall("get_elements_by_symbol")
  /\ last.args[1] = "len(symbol) == 1"
  /\ Len(last.out.value) = 14
  /\ last.out.value[14].atomic_number = 92

\* C19: iterating the table yields the 118 elements once each in ascending
\* order of atomic number, and reversed() yields them in the opposite order.
C19_Iteration ==
  /\ IsCall("__iter__") =>
       /\ Numbers(last.out.value) = [i \in 1..118 |-> i]
       /\ last.out.value = _elements
  /\ IsCall("__reversed__") =>
       /\ Numbers(last.out.value) = [i \in 1..118 |-> 119 - i]
       /\ \A i \in 1..118 : last.out.value[i] = _elements[119 - i]

C19_Witness ==
  /\ IsCall("__reversed__")
  /\ Len(last.out.value) = 118
  /\ last.out.value[1].atomic_number = 118
  /\ last.out.value[118].atomic_number = 1

\* C20: for every string t, t in table is true exactly when t matches the
\* name or the symbol of an element whatever the case, that is exactly when
\* get_element_by_name(t) or get_element_by_symbol(t) returns an element.
C20_Membership ==
  IsCall("__contains__") =>
    LET t == last.args[1] IN
    /\ last.out.raised = ""
    /\ last.out.value =
         (\E e \in Range(_elements) :
            SameIgnoringCase(t, e.name) \/ SameIgnoringCase(t, e.symbol))
    /\ last.out.value =
         (get_element_by_name(t).raised = ""
            \/ get_element_by_symbol(t).raised = "")

\* "fE" is in the table (iron), by its symbol only.
C20_Witness ==
  /\ IsCall("__contains__")
  /\ last.args[1] = <<102, 69>>
  /\ last.out = Return(TRUE)
  /\ get_element_by_name(last.args[1]).raised # ""
(***************************************************************************)
(* Properties of Element.                                                  *)
(***************************************************************************)

Related(op, m, n) ==
  CASE op = "==" -> m = n [] op = "!=" -> m # n [] op = "<" -> m < n
    [] op = "<=" -> m <= n [] op = ">" -> m > n [] op = ">=" -> m >= n

IsCompare == pc = "ready" /\ last.op \in CompareOps

\* C22: between two elements a and b, ==, <, <=, > and >= hold exactly
\* when the relation holds between the atomic numbers; == is reflexive and
\* symmetric, and exactly one of a < b, a == b, a > b holds.
C22_ByAtomicNumber ==
  (IsCompare /\ last.args[1].type = "Element"
             /\ last.args[2].type = "Element") =>
    LET a == last.args[1]
        b == last.args[2]
        holds(op, x, y) == compare(op, x, y) = Return(TRUE)
    IN /\ last.out = Return(Related(last.op, a.val.atomic_number,
                                             b.val.atomic_number))
       /\ holds("==", a, a)
       /\ holds("==", a, b) <=> holds("==", b, a)
       /\ Cardinality({op \in {"<", "==", ">"} : holds(op, a, b)}) = 1
       /\ \A op \in CompareOps : compare(op, a, b).raised = ""

\* Element("mn") >= Element(25) is True: manganese on both sides.
C22_Witness ==
  /\ IsCompare
  /\ last.op = ">="
  /\ last.args[1].type = "Element" /\ last.args[2].type = "Element"
  /\ last.args[1].val.atomic_number = 25
  /\ last.args[2].val.atomic_number = 25
  /\ last.out = Return(TRUE)

CategoryViews ==
  [elements_with_stable_isotope |-> _elements_with_stable_isotope,
   elements_without_stable_isotope |-> _elements_without_stable_isotope,
   alkali_metals |-> _alkali_metals,
   alkaline_earth_metals |-> _alkaline_earth_metals,
   lanthanides |-> _lanthanides,
   actinides |-> _actinides,
   halogens |-> _halogens,
   noble_gases |-> _noble_gases]

\* C24: asdict(elements_to_dict, elements_only) with elements_only true
\* returns the mapping from the names to the elements alone, one key for
\* each of the 118 elements; with elements_only false it returns that
\* mapping under "elements" and one entry for every category view, with the
\* elements of the view in the order of the view; an element is given as
\* its mapping when elements_to_dict is true and as itself otherwise.
C24_Asdict ==
  IsCall("asdict") =>
    LET elements_to_dict == last.args[1]
        elements_only == last.args[2]
        result == last.out.value
        shown(e) == IF elements_to_dict THEN Element_asdict(e) ELSE e
        IsMapping(mapping) ==
          /\ DOMAIN mapping = {e.name : e \in Range(_elements)}
          /\ Cardinality(DOMAIN mapping) = 118
          /\ \A i \in 1..Len(_elements) :
               mapping[_elements[i].name] = shown(_elements[i])
    IN /\ last.out.raised = ""
       /\ elements_only => IsMapping(result)
       /\ ~elements_only =>
            /\ DOMAIN result = {"elements"} \cup DOMAIN CategoryViews
            /\ IsMapping(result.elements)
            /\ \A view \in DOMAIN CategoryViews :
                 /\ Len(result[view]) = Len(CategoryViews[view])
                 /\ \A i \in 1..Len(CategoryViews[view]) :
                      result[view][i] = shown(CategoryViews[view][i])

\* asdict(False, False) gives the six halogens themselves, from fluorine on.
C24_Witness ==
  /\ IsCall("asdict")
  /\ last.args = <<FALSE, FALSE>>
  /\ Len(last.out.value.halogens) = 6
  /\ last.out.value.halogens[1].atomic_number = 9
  /\ last.out.value.elements[<<105, 114, 111, 110>>].atomic_number = 26

\* C25: once the table is constructed, no call (lookup, range, filter,
\* iteration, membership, length, asdict; returning or raising) changes the
\* list of the elements, a category view or an attribute of the table.
C25_ReadOnly ==
  [][pc = "ready" =>
       /\ pc' = "ready"
       /\ _elements' = _elements
       /\ views' = views
       /\ attrs' = attrs]_vars

\* A call that raised, on a table that holds what the construction left.
C25_Witness ==
  /\ IsCall("get_elements_by_state")
  /\ last.out = Raise("ValueError")
  /\ _elements = [i \in 1..NUMBER_OF_ELEMENTS |-> DATA[i].attrs]
  /\ Len(_noble_gases) = 7

\* A view holds the elements of the list that its test selects, in order.
Populated(view, test(_)) == view = SelectSeq(_elements, test)

C27_ScanAndIndex ==
  (pc = "ready" /\ last.op \in {"get_element_by_atomic_number",
                                "get_element_by_atomic_number_linear"}) =>
    LET n == last.args[1] IN
    /\ last.out = get_element_by_atomic_number(n)
    /\ last.out = get_element_by_atomic_number_linear(n)
    /\ n \in 1..118 =>
         last.out.raised = "" /\ last.out.value.atomic_number = n
    /\ n \notin 1..118 => last.out = Raise("ElementDoesNotExist")

\* The scan finds no element with the atomic number 0.
C27_Witness ==
  /\ IsCall("get_element_by_atomic_number_linear")
  /\ last.args = <<0>>
  /\ last.out = Raise("ElementDoesNotExist")

\* C28: Element(t) and the lookups of the table accept the same strings:
\* for every str t, Element(t) returns an element exactly when
\* get_element_by_name(t) or get_element_by_symbol(t) does, that is exactly
\* when t is in the table, and the element is the same one; so for
\* "aluminum", "sulphur" and "cesium", which Element accepts.
C28_SameTokens ==
  (IsCall("Element") /\ last.args[1].type = "str") =>
    LET t == last.args[1].val
        byName == get_element_by_name(t)
        bySymbol == get_element_by_symbol(t)
    IN /\ (last.out.raised = "") <=>
            (byName.raised = "" \/ bySymbol.raised = "")
       /\ (last.out.raised = "") <=> __contains__(t).value
       /\ byName.raised = "" => byName.value = last.out.value
       /\ bySymbol.raised = "" => bySymbol.value = last.out.value

\* The attributes of the table set for an element: under its name, under
\* its symbol in lower case and under its symbol in title case.
KeysOf(e) == {e.name, lower(e.symbol), title(e.symbol)}

\* C29: after every iteration of the construction, the attributes of the
\* table named e.name, e.symbol.lower() and e.symbol.title() refer to e for
\* every element e built so far: no iteration overwrites an attribute of an
\* earlier element, and no attribute takes the name of a method, a property
\* or a list of the table.
C29_Attributes ==
  last = NoCall =>
    /\ \A i \in 1..Len(_elements) : \A key \in KeysOf(_elements[i]) :
         [key |-> key, value |-> _elements[i]] \in attrs
    /\ \A a \in attrs : \E i \in 1..Len(_elements) :
         a.key \in KeysOf(_elements[i]) /\ a.value = _elements[i]
    /\ Cardinality(attrs) = 3 * Len(_elements)
    /\ \A a \in attrs : a.key \notin ReservedNames

\* The complete table: 354 attributes, and "he" and "He" are helium.
C29_Witness ==
  /\ pc = "ready"
  /\ Cardinality(attrs) = 354
  /\ \E a \in attrs : a.key = <<104, 101>> /\ a.value.atomic_number = 2
  /\ \E a \in attrs : a.key = <<72, 101>> /\ a.value.atomic_number = 2

\* The calls that return some of the elements of the table.
FilterOps ==
  {"get_elements_by_name", "get_elements_by_symbol", "get_elements_by_state",
   "get_elements_by_group", "get_elements_by_period",
   "get_elements_by_melting_point", "get_elements_by_boiling_point",
   "get_elements_by_density", "get_elements_by_discovery_year"}

\* The list holds elements of the table, each at most once, in ascending
\* order of atomic number.
IsSubsequence(list) ==
  /\ \A i \in 1..Len(list) :
       /\ list[i].atomic_number \in 1..Len(_elements)
       /\ list[i] = _elements[list[i].atomic_number]
  /\ \A i \in 1..(Len(list) - 1) :
       list[i].atomic_number < list[i + 1].atomic_number

\* C30: the list returned by a filter (by a function of the name or of the
\* symbol, by state, group, period, melting or boiling point, density or
\* discovery year) and every category view is a subsequence of the list of
\* the elements: atomic numbers strictly ascending, no element twice, every
\* member an element of the table.
C30_Subsequences ==
  /\ (pc = "ready" /\ last.op \in FilterOps /\ last.out.raised = "") =>
       IsSubsequence(last.out.value)
  /\ last = NoCall =>
       \A v \in 1..Len(views) : IsSubsequence(views[v])

\* The first period: hydrogen and helium.
C30_Witness ==
  /\ IsCall("get_elements_by_period")
  /\ last.args = <<1>>
  /\ Numbers(last.out.value) = <<1, 2>>

====
